---- MODULE Spec2Model ----
(***************************************************************************)
(* exo-colony: the per-tick energy / material allocation engine.           *)
(*                                                                         *)
(* EnergyManager and ResourceManager are modelled from src/src/managers.rs,*)
(* the battery and storage components from src/src/structures.rs and      *)
(* src/src/component.rs, the tick driver (GameEvent::Update) from          *)
(* src/src/main.rs and the object registry from src/src/game.rs.           *)
(***************************************************************************)
EXTENDS Integers, Sequences, FiniteSets, TLC

(***************************************************************************)
(* Bounds of the model.                                                    *)
(***************************************************************************)
\* number of grid coordinates on which structures are placed
NumPositions == 3
\* number of Update events (ticks) of a behaviour
MaxTicks == 2
\* number of placements and removals of a behaviour
MaxPlacements == 2
\* largest amount held by a field of the ledger, and half the largest
\* amount asked of it, in the specification of the ledger operations
MaxAmount == 6
\* the number of bits of the machine word of the model
WordBits == 12
\* the events each timer thread sends
MaxSends == 2

(***************************************************************************)
(* Program constants.                                                      *)
(***************************************************************************)
BaseEnergyOut == 50
BatteryCapacity == 1000
PowerPlantEnergyOut == 100
MineEnergyIn == 25
MineResourceOut == 1
StorageCapacity == 1000
FactoryCommodityOut == 1

Positions == 1..NumPositions

\* the resource and commodity kinds of the ledger the model enumerates
Resources == {"Aluminum", "Carbon", "Silica"}
Commodities == {"Concrete", "Semiconductor"}

Min(a, b) == IF a < b THEN a ELSE b

\* The amounts are u64 and the left-over of the capacity-clamped adds is an
\* i64.  The model keeps the two's complement arithmetic and scales the
\* word to WordBits bits: Word stands for 2^64 and Half for 2^63.
Word == 2 ^ WordBits
Half == 2 ^ (WordBits - 1)
wrap_u64(x) == x % Word
as_i64(x) == IF x >= Half THEN x - Word ELSE x
wrap_i64(x) == ((x + Half) % Word) - Half

(***************************************************************************)
(* CommodityRequireFactory: the recipe tables.                             *)
(***************************************************************************)
energy_for_commodity(c) ==
    CASE c = "Concrete" -> 45
      [] c = "Semiconductor" -> 40

\* a map holding the required resources only, as the HashMap does
resources_for_commodity(c) ==
    CASE c = "Concrete" -> ("Silica" :> 15)
      [] c = "Semiconductor" -> ("Aluminum" :> 5) @@ ("Carbon" :> 10) @@ ("Silica" :> 25)

(***************************************************************************)
(* Structures.  One record shape for every variant; a field a variant does *)
(* not have keeps its neutral value.                                       *)
(*   stored      BatteryComponent.stored          (Base)                   *)
(*   resources   ResourceStorageComponent.resources (Base, Storage)        *)
(*   commodities CommodityStorageComponent.commodities (Storage)           *)
(*   resource    Mine.resource                                             *)
(*   commodity   Factory.commodity                                         *)
(***************************************************************************)
EmptyResources == [r \in Resources |-> 0]
EmptyCommodities == [c \in Commodities |-> 0]

NoStructure ==
    [kind |-> "None", stored |-> 0, resources |-> EmptyResources,
     commodities |-> EmptyCommodities, resource |-> "none", commodity |-> "none"]

BaseNew == [NoStructure EXCEPT !.kind = "Base"]
PowerPlantNew == [NoStructure EXCEPT !.kind = "PowerPlant"]
MineNew(r) == [NoStructure EXCEPT !.kind = "Mine", !.resource = r]
StorageNew == [NoStructure EXCEPT !.kind = "Storage"]
FactoryNew(c) == [NoStructure EXCEPT !.kind = "Factory", !.commodity = c]

RefineryNew == [NoStructure EXCEPT !.kind = "Refinery"]

(***************************************************************************)
(* StructureBlueprint: the components a constructor registers, as a        *)
(* function from the ComponentName it is registered under to the variant   *)
(* of ComponentGroup registered.                                           *)
(***************************************************************************)
ComponentNames ==
    {"EnergyComponent", "MineOutputComponent", "ResourceStorageComponent",
     "CommodityStorageComponent", "BatteryComponent", "RefineryOutputComponent",
     "FactoryOutputComponent"}

\* Mine::new forgetting to register its MineOutput component
Components_mine_without_output(s) ==
    CASE s.kind = "Base" ->
            [n \in {"EnergyComponent", "BatteryComponent", "ResourceStorageComponent"} |->
                CASE n = "EnergyComponent" -> "Energy"
                  [] n = "BatteryComponent" -> "Battery"
                  [] OTHER -> "ResourceStorage"]
      [] s.kind = "Storage" ->
            [n \in {"ResourceStorageComponent", "CommodityStorageComponent"} |->
                IF n = "ResourceStorageComponent" THEN "ResourceStorage"
                ELSE "CommodityStorage"]
      [] s.kind = "Factory" ->
            [n \in {"EnergyComponent", "FactoryOutputComponent"} |->
                IF n = "EnergyComponent" THEN "Energy" ELSE "FactoryOutput"]
      [] s.kind = "Refinery" ->
            [n \in {"EnergyComponent", "FactoryOutputComponent"} |->
                IF n = "EnergyComponent" THEN "Energy" ELSE "RefineryOutput"]
      [] OTHER -> [n \in {"EnergyComponent"} |-> "Energy"]

Components(s) ==
    CASE s.kind = "Base" ->
            [n \in {"EnergyComponent", "BatteryComponent", "ResourceStorageComponent"} |->
                CASE n = "EnergyComponent" -> "Energy"
                  [] n = "BatteryComponent" -> "Battery"
                  [] OTHER -> "ResourceStorage"]
      [] s.kind = "PowerPlant" -> [n \in {"EnergyComponent"} |-> "Energy"]
      [] s.kind = "Mine" ->
            [n \in {"EnergyComponent", "MineOutputComponent"} |->
                IF n = "EnergyComponent" THEN "Energy" ELSE "MineOutput"]
      [] s.kind = "Storage" ->
            [n \in {"ResourceStorageComponent", "CommodityStorageComponent"} |->
                IF n = "ResourceStorageComponent" THEN "ResourceStorage"
                ELSE "CommodityStorage"]
      [] s.kind = "Factory" ->
            [n \in {"EnergyComponent", "FactoryOutputComponent"} |->
                IF n = "EnergyComponent" THEN "Energy" ELSE "FactoryOutput"]
      \* Refinery::new registers its RefineryOutput under FactoryOutputComponent
      [] s.kind = "Refinery" ->
            [n \in {"EnergyComponent", "FactoryOutputComponent"} |->
                IF n = "EnergyComponent" THEN "Energy" ELSE "RefineryOutput"]
      [] OTHER -> <<>>

\* get_component panics when nothing is registered under the name
get_component(s, name) ==
    IF name \in DOMAIN Components(s)
    THEN [fault |-> FALSE, component |-> Components(s)[name]]
    ELSE [fault |-> TRUE, component |-> "none"]

has_component(s, name) == name \in DOMAIN Components(s)

\* The component lookups a pass of the tick makes on a structure, each with
\* the variant its match expects.  The Factory arm of
\* ResourceManager::collect names the Factory's output component
\* CommodityOutputComponent / CommodityOutput; structures.rs and
\* component.rs call the same component FactoryOutputComponent /
\* FactoryOutput.  No pass has an arm for a Refinery.
PassNames == {"collect", "produce", "discharge", "charge"}

Lookup(name, variant) == [name |-> name, variant |-> variant]

PassLookups(pass, s) ==
    CASE pass = "collect" /\ s.kind = "Base" ->
            {Lookup("EnergyComponent", "Energy"), Lookup("BatteryComponent", "Battery")}
      [] pass = "collect" /\ s.kind = "PowerPlant" -> {Lookup("EnergyComponent", "Energy")}
      [] pass = "produce" /\ s.kind = "Mine" ->
            {Lookup("EnergyComponent", "Energy"),
             Lookup("MineOutputComponent", "MineOutput")}
      [] pass = "produce" /\ s.kind = "Storage" ->
            {Lookup("ResourceStorageComponent", "ResourceStorage")}
      [] pass = "produce" /\ s.kind = "Factory" ->
            {Lookup("FactoryOutputComponent", "FactoryOutput")}
      [] pass = "discharge" /\ s.kind = "Base" -> {Lookup("BatteryComponent", "Battery")}
      [] pass = "charge" /\ s.kind = "Base" -> {Lookup("BatteryComponent", "Battery")}
      [] pass = "charge" /\ s.kind = "PowerPlant" -> {Lookup("EnergyComponent", "Energy")}
      [] OTHER -> {}

\* EnergyTrait
energy_in(s) ==
    CASE s.kind = "Mine" -> MineEnergyIn
      [] s.kind = "Factory" -> 20
      [] s.kind = "Refinery" -> 50
      [] OTHER -> 0

energy_out(s) ==
    CASE s.kind = "Base" -> BaseEnergyOut
      [] s.kind = "PowerPlant" -> PowerPlantEnergyOut
      [] OTHER -> 0

\* MineOutputTrait
resource_out(s) == MineResourceOut

(***************************************************************************)
(* BatteryTrait for StructureBlueprint.  Operations that mutate return the *)
(* new structure and the returned value.                                   *)
(***************************************************************************)
battery_capacity_free(s) == BatteryCapacity - s.stored

battery_stored(s) == s.stored

battery_charge(s, amount) ==
    LET free == BatteryCapacity - s.stored IN
    IF free = 0 THEN [s |-> s, ret |-> 0]
    ELSE IF free <= amount
         THEN [s |-> [s EXCEPT !.stored = @ + free], ret |-> free]
         ELSE [s |-> [s EXCEPT !.stored = @ + amount], ret |-> amount]

battery_discharge(s, amount) ==
    IF s.stored < amount
    THEN [s |-> [s EXCEPT !.stored = @ - s.stored], ret |-> s.stored]
    ELSE [s |-> [s EXCEPT !.stored = @ - amount], ret |-> amount]

(***************************************************************************)
(* ResourceStorageTrait / CommodityStorageTrait for StructureBlueprint.    *)
(***************************************************************************)
resource_capacity_free(s, r) == wrap_u64(StorageCapacity - s.resources[r])

\* resource_add without the clamp to the free capacity
resource_add_unclamped(s, r, amount) ==
    [s |-> [s EXCEPT !.resources[r] = @ + amount], ret |-> amount]

\* resource_add that stores the clamped amount and reports the requested one
resource_add_reports_request(s, r, amount) ==
    LET free_capacity == resource_capacity_free(s, r) IN
    [s |-> [s EXCEPT !.resources[r] = @ + Min(amount, free_capacity)], ret |-> amount]

\* left_over is the difference of the two amounts cast to i64; the slot is
\* a u64.  The values are those of a build with wrapping arithmetic.
resource_add(s, r, amount) ==
    LET free_capacity == resource_capacity_free(s, r)
        left_over == wrap_i64(as_i64(amount) - as_i64(free_capacity))
    IN  IF free_capacity <= 0 THEN [s |-> s, ret |-> 0]
        ELSE IF left_over <= 0
             THEN [s |-> [s EXCEPT !.resources[r] = wrap_u64(@ + amount)],
                   ret |-> amount]
             ELSE [s |-> [s EXCEPT !.resources[r] = wrap_u64(@ + free_capacity)],
                   ret |-> free_capacity]

\* a build with overflow checks panics in resource_add when the signed
\* subtraction or the unsigned addition leaves its range
resource_add_overflows(s, r, amount) ==
    LET free_capacity == resource_capacity_free(s, r)
        difference == as_i64(amount) - as_i64(free_capacity)
    IN  /\ free_capacity > 0
        /\ \/ difference # wrap_i64(difference)
           \/ difference <= 0 /\ s.resources[r] + amount >= Word

commodity_capacity_free(s, c) == wrap_u64(StorageCapacity - s.commodities[c])

\* commodity_add without the clamp to the free capacity
commodity_add_unclamped(s, c, amount) ==
    [s |-> [s EXCEPT !.commodities[c] = @ + amount], ret |-> amount]

commodity_add(s, c, amount) ==
    LET free_capacity == commodity_capacity_free(s, c)
        left_over == wrap_i64(as_i64(amount) - as_i64(free_capacity))
    IN  IF free_capacity <= 0 THEN [s |-> s, ret |-> 0]
        ELSE IF left_over <= 0
             THEN [s |-> [s EXCEPT !.commodities[c] = wrap_u64(@ + amount)],
                   ret |-> amount]
             ELSE [s |-> [s EXCEPT !.commodities[c] = wrap_u64(@ + free_capacity)],
                   ret |-> free_capacity]

commodity_add_overflows(s, c, amount) ==
    LET free_capacity == commodity_capacity_free(s, c)
        difference == as_i64(amount) - as_i64(free_capacity)
    IN  /\ free_capacity > 0
        /\ \/ difference # wrap_i64(difference)
           \/ difference <= 0 /\ s.commodities[c] + amount >= Word

(***************************************************************************)
(* EnergyManager.  e is the record of its four fields; the operations that *)
(* mutate return the new record and the returned value.                    *)
(***************************************************************************)
EnergyManagerNew == [output |-> 0, stored |-> 0, discharged |-> 0, deficit |-> 0]

\* zero that leaves the output of the last tick in the ledger
zero_keeps_output(e) == [e EXCEPT !.stored = 0, !.discharged = 0, !.deficit = 0]

zero(e) == [output |-> 0, stored |-> 0, discharged |-> 0, deficit |-> 0]

combined(e) == e.output + e.stored

\* has_energy with strict comparisons
has_energy_strict(e, amount) == e.output > amount \/ combined(e) > amount

\* has_energy satisfied with any energy at all
has_energy_any(e, amount) == e.output > 0 \/ combined(e) > 0

has_energy(e, amount) == e.output >= amount \/ combined(e) >= amount

\* withdraw_output subtracting the request without looking at what is there
withdraw_output_unclamped(e, amount) ==
    [e |-> [e EXCEPT !.output = @ - amount], ret |-> amount]

withdraw_output(e, amount) ==
    IF e.output = 0 \/ amount = 0 THEN [e |-> e, ret |-> 0]
    ELSE IF e.output < amount
         THEN [e |-> [e EXCEPT !.output = @ - e.output], ret |-> e.output]
         ELSE [e |-> [e EXCEPT !.output = @ - amount], ret |-> amount]

\* withdraw_stored that forgets to account the drained amount in discharged
withdraw_stored_untracked(e, amount) ==
    IF e.stored = 0 \/ amount = 0 THEN [e |-> e, ret |-> 0]
    ELSE IF e.stored < amount
         THEN [e |-> [e EXCEPT !.stored = @ - e.stored], ret |-> e.stored]
         ELSE [e |-> [e EXCEPT !.stored = @ - amount], ret |-> amount]

\* withdraw_stored accounting the drained amount in discharged without
\* taking it off stored
withdraw_stored_keeps_stored(e, amount) ==
    IF e.stored = 0 \/ amount = 0 THEN [e |-> e, ret |-> 0]
    ELSE IF e.stored < amount
         THEN [e |-> [e EXCEPT !.discharged = @ + e.stored], ret |-> e.stored]
         ELSE [e |-> [e EXCEPT !.discharged = @ + amount], ret |-> amount]

withdraw_stored(e, amount) ==
    IF e.stored = 0 \/ amount = 0 THEN [e |-> e, ret |-> 0]
    ELSE IF e.stored < amount
         THEN [e |-> [e EXCEPT !.stored = @ - e.stored,
                               !.discharged = @ + e.stored],
               ret |-> e.stored]
         ELSE [e |-> [e EXCEPT !.stored = @ - amount,
                               !.discharged = @ + amount],
               ret |-> amount]

withdraw_discharge(e, amount) ==
    IF e.discharged = 0 \/ amount = 0 THEN [e |-> e, ret |-> 0]
    ELSE IF e.discharged < amount
         THEN [e |-> [e EXCEPT !.discharged = @ - e.discharged],
               ret |-> e.discharged]
         ELSE [e |-> [e EXCEPT !.discharged = @ - amount], ret |-> amount]

add_deficit(e, amount) == [e EXCEPT !.deficit = @ + amount]

\* withdraw that drains stored before output
withdraw_stored_first(e, amount) ==
    LET s == withdraw_stored(e, amount) IN
    IF s.ret >= amount THEN [e |-> s.e, ret |-> amount]
    ELSE LET o == withdraw_output(s.e, amount - s.ret)
             available == o.ret + s.ret
         IN  IF available >= amount THEN [e |-> o.e, ret |-> amount]
             ELSE [e |-> add_deficit(o.e, available), ret |-> available]

withdraw(e, amount) ==
    LET o == withdraw_output(e, amount) IN
    IF o.ret >= amount THEN [e |-> o.e, ret |-> amount]
    ELSE LET s == withdraw_stored(o.e, amount - o.ret)
             e2 == add_deficit(s.e, s.ret)
             available == o.ret + s.ret
         IN  IF available >= amount THEN [e |-> e2, ret |-> amount]
             ELSE [e |-> add_deficit(e2, available), ret |-> available]

(***************************************************************************)
(* ResourceManager.  m is the record of its four maps.                     *)
(***************************************************************************)
ResourceManagerNew ==
    [resources |-> [r \in Resources |-> 0],
     resources_deficit |-> [r \in Resources |-> 0],
     commodities |-> [c \in Commodities |-> 0],
     commodities_deficit |-> [c \in Commodities |-> 0]]

\* has_resource that accepts a stock equal to the amount
has_resource_or_equal(m, r, amount) == m.resources[r] >= amount

has_resource(m, r, amount) == m.resources[r] > amount

\* deposit_resource holding the amount back instead of adding it to the stock
deposit_resource_held_back(m, r, amount) == m

deposit_resource(m, r, amount) == [m EXCEPT !.resources[r] = @ + amount]

withdraw_resource(m, r, amount) ==
    IF amount > m.resources[r]
    THEN [m |-> [m EXCEPT !.resources[r] = @ - m.resources[r]],
          ret |-> m.resources[r]]
    ELSE [m |-> [m EXCEPT !.resources[r] = @ - amount], ret |-> amount]

add_resource_deficit(m, r, amount) == [m EXCEPT !.resources_deficit[r] = @ + amount]

deposit_commodity(m, c, value) == [m EXCEPT !.commodities[c] = @ + value]

\* withdraw_commodity without the clamp to the stock
withdraw_commodity_unclamped(m, c, amount) ==
    [m |-> [m EXCEPT !.commodities[c] = @ - amount], ret |-> amount]

withdraw_commodity(m, c, amount) ==
    IF amount > m.commodities[c]
    THEN [m |-> [m EXCEPT !.commodities[c] = @ - m.commodities[c]],
          ret |-> m.commodities[c]]
    ELSE [m |-> [m EXCEPT !.commodities[c] = @ - amount], ret |-> amount]

add_commodity_deficit(m, c, amount) ==
    [m EXCEPT !.commodities_deficit[c] = @ + amount]

\* zero_deficit that clears the resource deficits only
zero_deficit_resources_only(m) ==
    [m EXCEPT !.resources_deficit = [r \in Resources |-> 0]]

\* zero_deficit that clears the stock together with the deficits
zero_deficit_and_stock(m) ==
    [m EXCEPT !.resources_deficit = [r \in Resources |-> 0],
              !.commodities_deficit = [c \in Commodities |-> 0],
              !.resources = [r \in Resources |-> 0],
              !.commodities = [c \in Commodities |-> 0]]

zero_deficit(m) ==
    [m EXCEPT !.resources_deficit = [r \in Resources |-> 0],
              !.commodities_deficit = [c \in Commodities |-> 0]]

(***************************************************************************)
(* The arms of ResourceManager::collect, one per structure variant.  Each  *)
(* returns the structure, the EnergyManager and the ResourceManager after  *)
(* the visit.                                                              *)
(***************************************************************************)
\* the Mine arm that withdraws first and compares afterwards, recording the
\* energy shortfall only
MineArm_withdraw_first(s, e, m) ==
    LET energy_required == energy_in(s)
        w == withdraw(e, energy_required)
    IN  IF w.ret >= energy_required
        THEN [s |-> s, e |-> w.e,
              m |-> deposit_resource(m, s.resource, resource_out(s))]
        ELSE [s |-> s, e |-> add_deficit(w.e, energy_required - w.ret), m |-> m]

MineArm(s, e, m) ==
    LET energy_required == energy_in(s)
        resource == s.resource
    IN  IF has_energy(e, energy_required)
        THEN [s |-> s,
              e |-> withdraw(e, energy_required).e,
              m |-> deposit_resource(m, resource, resource_out(s))]
        ELSE [s |-> s,
              e |-> add_deficit(e, energy_required),
              m |-> add_resource_deficit(m, resource, resource_out(s))]

\* the Storage arm offering the structure half of each stock only
StorageArm_offers_half(s, e, m) ==
    LET added(r) == resource_add(s, r, m.resources[r] \div 2) IN
    [s |-> [s EXCEPT !.resources =
                [r \in Resources |->
                    IF m.resources[r] > 0 THEN added(r).s.resources[r]
                    ELSE s.resources[r]]],
     e |-> e,
     m |-> [m EXCEPT !.resources =
                [r \in Resources |->
                    IF m.resources[r] > 0 THEN m.resources[r] - added(r).ret
                    ELSE m.resources[r]]]]

\* the Storage arm that forgets amount.sub_assign(amount_stored)
StorageArm_no_debit(s, e, m) ==
    LET added(r) == resource_add(s, r, m.resources[r]) IN
    [s |-> [s EXCEPT !.resources =
                [r \in Resources |->
                    IF m.resources[r] > 0 THEN added(r).s.resources[r]
                    ELSE s.resources[r]]],
     e |-> e,
     m |-> m]

\* the loop over resources_mut(): every slot of the ledger with a positive
\* amount is offered to the structure; resource_add touches that slot only
StorageArm(s, e, m) ==
    LET added(r) == resource_add(s, r, m.resources[r]) IN
    [s |-> [s EXCEPT !.resources =
                [r \in Resources |->
                    IF m.resources[r] > 0 THEN added(r).s.resources[r]
                    ELSE s.resources[r]]],
     e |-> e,
     m |-> [m EXCEPT !.resources =
                [r \in Resources |->
                    IF m.resources[r] > 0 THEN m.resources[r] - added(r).ret
                    ELSE m.resources[r]]]]

FactoryHasResources(s, m) ==
    LET required == resources_for_commodity(s.commodity) IN
    \A r \in DOMAIN required : has_resource(m, r, required[r])

\* the Factory arm that withdraws the energy before it checks the resources
FactoryArm_energy_first(s, e, m) ==
    LET energy_required == energy_for_commodity(s.commodity)
        required == resources_for_commodity(s.commodity)
        withdrawn == [m EXCEPT !.resources =
                        [r \in Resources |->
                            IF r \in DOMAIN required
                            THEN withdraw_resource(m, r, required[r]).m.resources[r]
                            ELSE m.resources[r]]]
    IN  IF has_energy(e, energy_required)
        THEN IF FactoryHasResources(s, m)
             THEN [s |-> s,
                   e |-> withdraw(e, energy_required).e,
                   m |-> deposit_commodity(withdrawn, s.commodity, FactoryCommodityOut)]
             ELSE [s |-> s,
                   e |-> withdraw(e, energy_required).e,
                   m |-> add_commodity_deficit(m, s.commodity, FactoryCommodityOut)]
        ELSE [s |-> s,
              e |-> e,
              m |-> add_commodity_deficit(m, s.commodity, FactoryCommodityOut)]

FactoryArm(s, e, m) ==
    LET energy_required == energy_for_commodity(s.commodity)
        required == resources_for_commodity(s.commodity)
        has_energy_ == has_energy(e, energy_required)
        has_resources == FactoryHasResources(s, m)
        withdrawn == [m EXCEPT !.resources =
                        [r \in Resources |->
                            IF r \in DOMAIN required
                            THEN withdraw_resource(m, r, required[r]).m.resources[r]
                            ELSE m.resources[r]]]
    IN  IF has_energy_ /\ has_resources
        THEN [s |-> s,
              e |-> withdraw(e, energy_required).e,
              m |-> deposit_commodity(withdrawn, s.commodity, FactoryCommodityOut)]
        ELSE [s |-> s,
              e |-> e,
              m |-> add_commodity_deficit(m, s.commodity, FactoryCommodityOut)]

\* the Base, which has a ResourceStorage component, taking in like a Storage
CollectArm_base_intake(s, e, m) ==
    CASE s.kind = "Mine" -> MineArm(s, e, m)
      [] s.kind \in {"Storage", "Base"} -> StorageArm(s, e, m)
      [] s.kind = "Factory" -> FactoryArm(s, e, m)
      [] OTHER -> [s |-> s, e |-> e, m |-> m]

CollectArm(s, e, m) ==
    CASE s.kind = "Mine" -> MineArm(s, e, m)
      [] s.kind = "Storage" -> StorageArm(s, e, m)
      [] s.kind = "Factory" -> FactoryArm(s, e, m)
      [] OTHER -> [s |-> s, e |-> e, m |-> m]

(***************************************************************************)
(* The arms of EnergyManager::collect, discharge and charge.               *)
(***************************************************************************)
\* the Base arm of collect without the stored value of the battery
EnergyCollectArm_output_only(s, e) ==
    IF s.kind \in {"Base", "PowerPlant"}
    THEN [e EXCEPT !.output = @ + energy_out(s)]
    ELSE e

EnergyCollectArm(s, e) ==
    CASE s.kind = "Base" ->
            [e EXCEPT !.output = @ + energy_out(s), !.stored = @ + battery_stored(s)]
      [] s.kind = "PowerPlant" -> [e EXCEPT !.output = @ + energy_out(s)]
      [] OTHER -> e

\* the Base arm of discharge without the call of withdraw_discharge
DischargeArm_no_reconcile(s, e) ==
    IF s.kind = "Base" /\ battery_stored(s) > 0 /\ e.discharged > 0
    THEN LET d == battery_discharge(s, e.discharged) IN
         [s |-> d.s, e |-> e, ret |-> d.ret]
    ELSE [s |-> s, e |-> e, ret |-> 0]

DischargeArm(s, e) ==
    IF s.kind = "Base" /\ battery_stored(s) > 0 /\ e.discharged > 0
    THEN LET d == battery_discharge(s, e.discharged) IN
         [s |-> d.s, e |-> withdraw_discharge(e, d.ret).e, ret |-> d.ret]
    ELSE [s |-> s, e |-> e, ret |-> 0]

\* the Base arm charging the battery without taking the energy off the output
ChargeArm_keeps_output(s, e) ==
    IF s.kind = "Base" /\ battery_capacity_free(s) > 0 /\ e.output > 0
    THEN LET c == battery_charge(s, Min(e.output, battery_capacity_free(s))) IN
         [s |-> c.s, e |-> e, ret |-> c.ret]
    ELSE [s |-> s, e |-> e, ret |-> 0]

ChargeArm(s, e) ==
    CASE s.kind = "Base" ->
            IF battery_capacity_free(s) > 0 /\ e.output > 0
            THEN LET w == withdraw_output(e, battery_capacity_free(s)) IN
                 IF w.ret > 0
                 THEN LET c == battery_charge(s, w.ret) IN
                      [s |-> c.s, e |-> w.e, ret |-> c.ret]
                 ELSE [s |-> s, e |-> w.e, ret |-> 0]
            ELSE [s |-> s, e |-> e, ret |-> 0]
      [] s.kind = "PowerPlant" ->
            [s |-> s, e |-> [e EXCEPT !.output = @ + energy_out(s)], ret |-> 0]
      [] OTHER -> [s |-> s, e |-> e, ret |-> 0]

(***************************************************************************)
(* State.                                                                  *)
(*   objects           ObjectManager.objects: the structure at a position  *)
(*   order             the iteration order of ObjectManager.objects        *)
(*   energy_manager    main's EnergyManager                                *)
(*   resource_manager  main's ResourceManager                              *)
(*   pc, idx           position of the Update handler: the pass it is in   *)
(*                     and the index in order of the next structure        *)
(*   ticks, placements counters bounding the behaviours                    *)
(*   tally             history of the current tick (what each pass moved,  *)
(*                     the ledgers as the previous tick left them, and     *)
(*                     what each Storage visited found and accepted)       *)
(*   probe             the last ledger operation applied on its own, its   *)
(*                     argument, the ledger before it and its result       *)
(*   events            main's EventBus: the channel of the timer threads,  *)
(*                     and how many events of each kind were sent and      *)
(*                     received                                            *)
(*   deposits          MapObject.resource of the object at a position      *)
(*                     ("none" where there is no object or no marker)      *)
(*   position          MapController.position: the cursor.  The placement  *)
(*                     actions draw the coordinate they act on; it stands  *)
(*                     for the cursor having been moved there              *)
(***************************************************************************)
VARIABLES objects, order, energy_manager, resource_manager, pc, idx,
          ticks, placements, tally, probe, events, deposits, position

vars == <<objects, order, energy_manager, resource_manager, pc, idx,
          ticks, placements, tally, probe, events, deposits, position>>

TallyNew(e, m) ==
    [collected |-> 0, granted |-> 0, unmet |-> 0, charged |-> 0, debited |-> 0,
     produced |-> [r \in Resources |-> 0],
     absorbed |-> [r \in Resources |-> 0],
     consumed |-> [r \in Resources |-> 0],
     commodity_produced |-> [c \in Commodities |-> 0],
     stock_before |-> m.resources,
     commodity_before |-> m.commodities,
     discharge_due |-> 0,
     charge_due |-> 0,
     charge_room |-> 0,
     energy_before |-> e,
     resources_deficit_before |-> m.resources_deficit,
     commodities_deficit_before |-> m.commodities_deficit,
     battery_served |-> FALSE,
     intake |-> <<>>]

NoProbe ==
    [op |-> "none", amount |-> 0, before |-> EnergyManagerNew, ret |-> 0, ok |-> FALSE]

EventKinds == {"Update", "Draw", "Input"}

\* EventBus::with_config before a thread has sent anything
EventBusNew ==
    [rx |-> <<>>, sent |-> [k \in EventKinds |-> 0], received |-> [k \in EventKinds |-> 0]]

\* no MapObject carries a resource marker
NoDeposits == [p \in Positions |-> "none"]

\* ObjectManager::set: the object inserted replaces the object at the
\* position, its resource marker with it
set_object(d, p, resource) == [d EXCEPT ![p] = resource]

\* ObjectManager::remove: the object at the position is gone, its resource
\* marker with it
remove_object(d, p) == [d EXCEPT ![p] = "none"]

\* Position::new(0, 0) of MapController::new
PositionNew == [x |-> 0, y |-> 0]

\* the orders in which a HashMap holding the keys S may iterate
Orders(S) ==
    {f \in [1..Cardinality(S) -> S] : \A i, j \in 1..Cardinality(S) : i # j => f[i] # f[j]}

Occupied == {p \in Positions : objects[p].kind # "None"}

\* Stock and battery charge outlive the ticks and the structures that made
\* them.  The behaviours start from the state after construction, or from
\* one of three states earlier play has left behind: a stockpile on an empty
\* map, a stockpile and a Base whose battery is nearly full, or the stock of
\* one recipe and a Base just placed.
InitStates ==
    {[objects |-> [p \in Positions |-> NoStructure], order |-> <<>>,
      resources |-> [r \in Resources |-> 0]],
     [objects |-> [p \in Positions |-> NoStructure], order |-> <<>>,
      resources |-> ("Aluminum" :> 6) @@ ("Carbon" :> 10) @@ ("Silica" :> 26)],
     [objects |-> [p \in Positions |->
                     IF p = 1 THEN [BaseNew EXCEPT !.stored = 950] ELSE NoStructure],
      order |-> <<1>>,
      resources |-> ("Aluminum" :> 6) @@ ("Carbon" :> 11) @@ ("Silica" :> 1500)],
     [objects |-> [p \in Positions |-> IF p = 1 THEN BaseNew ELSE NoStructure],
      order |-> <<1>>,
      resources |-> ("Aluminum" :> 6) @@ ("Carbon" :> 11) @@ ("Silica" :> 26)]}

Init ==
    /\ \E init \in InitStates :
         /\ objects = init.objects
         /\ order = init.order
         /\ resource_manager = [ResourceManagerNew EXCEPT !.resources = init.resources]
    /\ energy_manager = EnergyManagerNew
    /\ pc = "idle"
    /\ idx = 1
    /\ ticks = 0
    /\ placements = 0
    /\ tally = TallyNew(energy_manager, resource_manager)
    /\ probe = NoProbe
    /\ events = EventBusNew
    /\ deposits = NoDeposits
    /\ position = PositionNew

(***************************************************************************)
(* GameEvent::Input: Enter places the selected structure at the cursor,    *)
(* Delete removes the structure at the cursor.                             *)
(***************************************************************************)
\* the deposits of the map the model places Mines on, and the commodities
\* the Factory menu of the model offers
MinedResources == {"Carbon"}
FactoryCommodities == {"Semiconductor"}

NewStructures ==
    {BaseNew, PowerPlantNew, StorageNew, RefineryNew}
        \cup {MineNew(r) : r \in MinedResources}
        \cup {FactoryNew(c) : c \in FactoryCommodities}

\* The coordinates are interchangeable keys of the map (the iteration order
\* is chosen separately), so the lowest free coordinate stands for every
\* free one; an occupied coordinate has its structure replaced.
Placeable == Occupied \cup {p \in Positions : \A q \in Positions \ Occupied : p <= q}

add_structure(p, s) ==
    /\ pc = "idle"
    /\ placements < MaxPlacements
    /\ p \in Placeable
    /\ objects' = [objects EXCEPT ![p] = s]
    /\ deposits' = set_object(deposits, p, "none")
    /\ IF p \in Occupied THEN order' = order
       ELSE order' \in Orders(Occupied \cup {p})
    /\ placements' = placements + 1
    /\ UNCHANGED <<position, events, energy_manager, resource_manager, pc, idx,
                   ticks, tally, probe>>

destroy_structure(p) ==
    /\ pc = "idle"
    /\ placements < MaxPlacements
    /\ p \in Occupied \/ deposits[p] # "none"
    /\ objects' = [objects EXCEPT ![p] = NoStructure]
    /\ deposits' = remove_object(deposits, p)
    /\ order' = SelectSeq(order, LAMBDA q : q # p)
    /\ placements' = placements + 1
    /\ UNCHANGED <<position, events, energy_manager, resource_manager, pc, idx,
                   ticks, tally, probe>>

(***************************************************************************)
(* GameEvent::Update: the tick.                                            *)
(***************************************************************************)
Visiting == idx <= Len(order)
Current == objects[order[idx]]

\* energy_manager.zero()
Update ==
    /\ pc = "idle"
    /\ ticks < MaxTicks
    /\ energy_manager' = zero(energy_manager)
    /\ pc' = "collect"
    /\ idx' = 1
    /\ tally' = TallyNew(energy_manager, resource_manager)
    /\ UNCHANGED <<deposits, position, events, objects, order,
                   resource_manager, ticks, placements, probe>>

\* energy_manager.collect(..): one structure of the loop
EnergyCollectVisit ==
    /\ pc = "collect"
    /\ Visiting
    /\ energy_manager' = EnergyCollectArm(Current, energy_manager)
    /\ idx' = idx + 1
    /\ tally' = [tally EXCEPT !.collected = @ + energy_out(Current)]
    /\ UNCHANGED <<deposits, position, events, objects, order,
                   resource_manager, pc, ticks, placements, probe>>

\* the end of energy collection and the head of ResourceManager::collect
EnergyCollectEnd ==
    /\ pc = "collect"
    /\ ~Visiting
    /\ resource_manager' = zero_deficit(resource_manager)
    /\ pc' = "produce"
    /\ idx' = 1
    /\ UNCHANGED <<deposits, position, events, objects, order, energy_manager,
                   ticks, placements, tally, probe>>

RECURSIVE SumOver(_, _)
\* the sum of f[p] over the positions p of S
SumOver(f, S) ==
    IF S = {} THEN 0
    ELSE LET p == CHOOSE q \in S : TRUE IN f[p] + SumOver(f, S \ {p})

\* the free capacity of the batteries of the placed Bases, for the history
BatteryRoom ==
    SumOver([p \in Positions |->
                IF objects[p].kind = "Base" THEN BatteryCapacity - objects[p].stored
                ELSE 0],
            Positions)

ProduceTally(s, e, m, r) ==
    LET success == s.kind = "Mine" /\ has_energy(e, energy_in(s))
        made == s.kind = "Factory" /\ has_energy(e, energy_for_commodity(s.commodity))
                   /\ FactoryHasResources(s, m)
        req == IF s.kind = "Mine" THEN energy_in(s)
               ELSE IF s.kind = "Factory" THEN energy_for_commodity(s.commodity)
               ELSE 0
        required == IF s.kind = "Factory" THEN resources_for_commodity(s.commodity)
                    ELSE <<>>
    IN  [tally EXCEPT
           !.granted = IF success \/ made THEN @ + withdraw(e, req).ret ELSE @,
           !.battery_served = @ \/ ((success \/ made) /\ e.output < req),
           !.unmet = IF s.kind = "Mine" /\ ~success THEN @ + req ELSE @,
           !.produced = IF success THEN [@ EXCEPT ![s.resource] = @ + resource_out(s)]
                        ELSE @,
           !.absorbed = [k \in Resources |-> @[k] + (r.s.resources[k] - s.resources[k])],
           !.consumed = IF made
                        THEN [k \in Resources |->
                                IF k \in DOMAIN required
                                THEN @[k] + withdraw_resource(m, k, required[k]).ret
                                ELSE @[k]]
                        ELSE @,
           !.commodity_produced =
                        IF made THEN [@ EXCEPT ![s.commodity] = @ + FactoryCommodityOut]
                        ELSE @,
           !.intake = IF s.kind = "Storage"
                      THEN Append(@, [stock |-> m.resources,
                                      free |-> [k \in Resources |->
                                                  StorageCapacity - s.resources[k]],
                                      accepted |-> [k \in Resources |->
                                                  r.s.resources[k] - s.resources[k]],
                                      produced |-> tally.produced,
                                      consumed |-> tally.consumed])
                      ELSE @]

\* resource_manager.collect(..): one structure of the loop
ProduceVisit ==
    /\ pc = "produce"
    /\ Visiting
    /\ LET r == CollectArm(Current, energy_manager, resource_manager) IN
         /\ objects' = [objects EXCEPT ![order[idx]] = r.s]
         /\ energy_manager' = r.e
         /\ resource_manager' = r.m
         /\ tally' = ProduceTally(Current, energy_manager, resource_manager, r)
    /\ idx' = idx + 1
    /\ UNCHANGED <<deposits, position, events, order, pc, ticks, placements,
                   probe>>

\* the guards of main after the production loop
\* the discharge pass entered without its guard
AfterProduce_unguarded(e) == "discharge"

AfterProduce(e) ==
    IF e.discharged > 0 THEN "discharge"
    ELSE IF e.output > 0 THEN "charge" ELSE "idle"

AfterDischarge(e) == IF e.output > 0 THEN "charge" ELSE "idle"

ProduceEnd ==
    /\ pc = "produce"
    /\ ~Visiting
    /\ pc' = AfterProduce(energy_manager)
    /\ idx' = 1
    /\ ticks' = IF pc' = "idle" THEN ticks + 1 ELSE ticks
    /\ tally' = [tally EXCEPT !.discharge_due = energy_manager.discharged,
                              !.charge_due = energy_manager.output,
                              !.charge_room = BatteryRoom]
    /\ UNCHANGED <<deposits, position, events, objects, order, energy_manager,
                   resource_manager, placements, probe>>

\* energy_manager.discharge(..): one structure of the loop
DischargeVisit ==
    /\ pc = "discharge"
    /\ Visiting
    /\ LET r == DischargeArm(Current, energy_manager) IN
         /\ objects' = [objects EXCEPT ![order[idx]] = r.s]
         /\ energy_manager' = r.e
         /\ tally' = [tally EXCEPT !.debited = @ + (Current.stored - r.s.stored)]
    /\ idx' = idx + 1
    /\ UNCHANGED <<deposits, position, events, order, resource_manager, pc,
                   ticks, placements, probe>>

DischargeEnd ==
    /\ pc = "discharge"
    /\ ~Visiting
    /\ pc' = AfterDischarge(energy_manager)
    /\ idx' = 1
    /\ ticks' = IF pc' = "idle" THEN ticks + 1 ELSE ticks
    /\ tally' = [tally EXCEPT !.charge_due = energy_manager.output,
                              !.charge_room = BatteryRoom]
    /\ UNCHANGED <<deposits, position, events, objects, order, energy_manager,
                   resource_manager, placements, probe>>

\* energy_manager.charge(..): one structure of the loop
ChargeVisit ==
    /\ pc = "charge"
    /\ Visiting
    /\ LET r == ChargeArm(Current, energy_manager) IN
         /\ objects' = [objects EXCEPT ![order[idx]] = r.s]
         /\ energy_manager' = r.e
         /\ tally' = [tally EXCEPT !.charged = @ + (r.s.stored - Current.stored)]
    /\ idx' = idx + 1
    /\ UNCHANGED <<deposits, position, events, order, resource_manager, pc,
                   ticks, placements, probe>>

\* update_tick.update(&elapsed)
ChargeEnd ==
    /\ pc = "charge"
    /\ ~Visiting
    /\ pc' = "idle"
    /\ idx' = 1
    /\ ticks' = ticks + 1
    /\ UNCHANGED <<deposits, position, events, objects, order, energy_manager,
                   resource_manager, placements, tally, probe>>

Next ==
    \/ \E p \in Positions, s \in NewStructures : add_structure(p, s)
    \/ \E p \in Positions : destroy_structure(p)
    \/ Update
    \/ EnergyCollectVisit
    \/ EnergyCollectEnd
    \/ ProduceVisit
    \/ ProduceEnd
    \/ DischargeVisit
    \/ DischargeEnd
    \/ ChargeVisit
    \/ ChargeEnd

Spec == Init /\ [][Next]_vars

\* The Update handler runs on the main thread from zero() to update_tick
\* without waiting for anything: a tick that has begun goes on.
TickStep ==
    \/ EnergyCollectVisit
    \/ EnergyCollectEnd
    \/ ProduceVisit
    \/ ProduceEnd
    \/ DischargeVisit
    \/ DischargeEnd
    \/ ChargeVisit
    \/ ChargeEnd

SpecFair == Spec /\ WF_vars(TickStep)

(***************************************************************************)
(* The EnergyManager operations on their own: a ledger in any state and    *)
(* one call of withdraw or has_energy with any amount.                     *)
(***************************************************************************)
LedgerValues == 0..MaxAmount
Amounts == 0..(2 * MaxAmount + 1)

LedgerInit ==
    /\ objects = [p \in Positions |-> NoStructure]
    /\ order = <<>>
    /\ energy_manager \in [output : LedgerValues, stored : LedgerValues,
                           discharged : 0..1, deficit : 0..1]
    /\ resource_manager = ResourceManagerNew
    /\ pc = "ledger"
    /\ idx = 1
    /\ ticks = 0
    /\ placements = 0
    /\ tally = TallyNew(energy_manager, resource_manager)
    /\ probe = NoProbe
    /\ events = EventBusNew
    /\ deposits = NoDeposits
    /\ position = PositionNew

CallWithdraw(amount) ==
    /\ probe.op = "none"
    /\ LET r == withdraw(energy_manager, amount) IN
         /\ energy_manager' = r.e
         /\ probe' = [op |-> "withdraw", amount |-> amount,
                      before |-> energy_manager, ret |-> r.ret, ok |-> FALSE]
    /\ UNCHANGED <<deposits, position, events, objects, order,
                   resource_manager, pc, idx, ticks, placements, tally>>

CallHasEnergy(amount) ==
    /\ probe.op = "none"
    /\ probe' = [op |-> "has_energy", amount |-> amount, before |-> energy_manager,
                 ret |-> 0, ok |-> has_energy(energy_manager, amount)]
    /\ UNCHANGED <<deposits, position, events, objects, order, energy_manager,
                   resource_manager, pc, idx, ticks, placements, tally>>

LedgerNext ==
    \/ \E amount \in Amounts : CallWithdraw(amount)
    \/ \E amount \in Amounts : CallHasEnergy(amount)

SpecLedger == LedgerInit /\ [][LedgerNext]_vars

(***************************************************************************)
(* The capacity-clamped adds on their own: a Storage whose slots hold any  *)
(* of StoredValues and one call of resource_add or commodity_add with any  *)
(* of AddAmounts, in a build with overflow checks or in one with wrapping  *)
(* arithmetic.                                                             *)
(***************************************************************************)
StoredValues == {0, 1, StorageCapacity - 1, StorageCapacity}

AddAmounts ==
    {0, 1, StorageCapacity - 1, StorageCapacity, StorageCapacity + 1,
     Half - 1, Half, Half + 1, Half + StorageCapacity, Word - 1}

Builds == {"checked", "wrapping"}

StorageInit ==
    /\ \E silica, carbon, concrete \in StoredValues :
         objects = [p \in Positions |->
                      IF p = 1
                      THEN [StorageNew EXCEPT !.resources["Silica"] = silica,
                                              !.resources["Carbon"] = carbon,
                                              !.commodities["Concrete"] = concrete]
                      ELSE NoStructure]
    /\ order = <<1>>
    /\ energy_manager = EnergyManagerNew
    /\ resource_manager = ResourceManagerNew
    /\ pc = "storage"
    /\ idx = 1
    /\ ticks = 0
    /\ placements = 0
    /\ tally = TallyNew(energy_manager, resource_manager)
    /\ probe = NoProbe
    /\ events = EventBusNew
    /\ deposits = NoDeposits
    /\ position = PositionNew

CallResourceAdd(r, amount, build) ==
    /\ probe.op = "none"
    /\ LET s == objects[1]
           a == resource_add(s, r, amount)
           panics == build = "checked" /\ resource_add_overflows(s, r, amount)
       IN  /\ objects' = [objects EXCEPT ![1] = IF panics THEN s ELSE a.s]
           /\ probe' = [op |-> "resource_add", kind |-> r, amount |-> amount,
                        before |-> s, ret |-> IF panics THEN 0 ELSE a.ret,
                        outcome |-> IF panics THEN "panic" ELSE "returned"]
    /\ UNCHANGED <<deposits, position, events, order, energy_manager,
                   resource_manager, pc, idx, ticks, placements, tally>>

CallCommodityAdd(c, amount, build) ==
    /\ probe.op = "none"
    /\ LET s == objects[1]
           a == commodity_add(s, c, amount)
           panics == build = "checked" /\ commodity_add_overflows(s, c, amount)
       IN  /\ objects' = [objects EXCEPT ![1] = IF panics THEN s ELSE a.s]
           /\ probe' = [op |-> "commodity_add", kind |-> c, amount |-> amount,
                        before |-> s, ret |-> IF panics THEN 0 ELSE a.ret,
                        outcome |-> IF panics THEN "panic" ELSE "returned"]
    /\ UNCHANGED <<deposits, position, events, order, energy_manager,
                   resource_manager, pc, idx, ticks, placements, tally>>

StorageNext ==
    \/ \E r \in Resources, amount \in AddAmounts, build \in Builds :
         CallResourceAdd(r, amount, build)
    \/ \E c \in Commodities, amount \in AddAmounts, build \in Builds :
         CallCommodityAdd(c, amount, build)

SpecStorage == StorageInit /\ [][StorageNext]_vars

(***************************************************************************)
(* The ResourceManager operations on their own: a ledger holding any stock *)
(* of two resources and a commodity, and one withdraw, or one deposit      *)
(* followed by a withdraw of the same amount.                              *)
(***************************************************************************)
MaterialInit ==
    /\ objects = [p \in Positions |-> NoStructure]
    /\ order = <<>>
    /\ energy_manager = EnergyManagerNew
    /\ \E carbon, silica, concrete \in LedgerValues, deficit \in 0..1 :
         resource_manager =
             [ResourceManagerNew EXCEPT !.resources["Carbon"] = carbon,
                                        !.resources["Silica"] = silica,
                                        !.commodities["Concrete"] = concrete,
                                        !.resources_deficit["Carbon"] = deficit,
                                        !.commodities_deficit["Concrete"] = deficit]
    /\ pc = "material"
    /\ idx = 1
    /\ ticks = 0
    /\ placements = 0
    /\ tally = TallyNew(energy_manager, ResourceManagerNew)
    /\ probe = NoProbe
    /\ events = EventBusNew
    /\ deposits = NoDeposits
    /\ position = PositionNew

CallWithdrawResource(r, amount) ==
    /\ probe.op = "none"
    /\ LET w == withdraw_resource(resource_manager, r, amount) IN
         /\ resource_manager' = w.m
         /\ probe' = [op |-> "withdraw_resource", kind |-> r, amount |-> amount,
                      before |-> resource_manager, deposited |-> 0, ret |-> w.ret]
    /\ UNCHANGED <<deposits, position, events, objects, order, energy_manager,
                   pc, idx, ticks, placements, tally>>

CallWithdrawCommodity(c, amount) ==
    /\ probe.op = "none"
    /\ LET w == withdraw_commodity(resource_manager, c, amount) IN
         /\ resource_manager' = w.m
         /\ probe' = [op |-> "withdraw_commodity", kind |-> c, amount |-> amount,
                      before |-> resource_manager, deposited |-> 0, ret |-> w.ret]
    /\ UNCHANGED <<deposits, position, events, objects, order, energy_manager,
                   pc, idx, ticks, placements, tally>>

\* deposit_resource(r, amount) followed by withdraw_resource(r, amount)
CallDepositWithdrawResource(r, amount) ==
    /\ probe.op = "none"
    /\ LET d == deposit_resource(resource_manager, r, amount)
           w == withdraw_resource(d, r, amount)
       IN  /\ resource_manager' = w.m
           /\ probe' = [op |-> "deposit_withdraw_resource", kind |-> r,
                        amount |-> amount, before |-> resource_manager,
                        deposited |-> d.resources[r], ret |-> w.ret]
    /\ UNCHANGED <<deposits, position, events, objects, order, energy_manager,
                   pc, idx, ticks, placements, tally>>

\* deposit_commodity(c, amount) followed by withdraw_commodity(c, amount)
CallDepositWithdrawCommodity(c, amount) ==
    /\ probe.op = "none"
    /\ LET d == deposit_commodity(resource_manager, c, amount)
           w == withdraw_commodity(d, c, amount)
       IN  /\ resource_manager' = w.m
           /\ probe' = [op |-> "deposit_withdraw_commodity", kind |-> c,
                        amount |-> amount, before |-> resource_manager,
                        deposited |-> d.commodities[c], ret |-> w.ret]
    /\ UNCHANGED <<deposits, position, events, objects, order, energy_manager,
                   pc, idx, ticks, placements, tally>>

MaterialNext ==
    \/ \E r \in Resources, amount \in Amounts : CallWithdrawResource(r, amount)
    \/ \E c \in Commodities, amount \in Amounts : CallWithdrawCommodity(c, amount)
    \/ \E r \in Resources, amount \in Amounts : CallDepositWithdrawResource(r, amount)
    \/ \E c \in Commodities, amount \in Amounts : CallDepositWithdrawCommodity(c, amount)

SpecMaterial == MaterialInit /\ [][MaterialNext]_vars

(***************************************************************************)
(* The blueprints on their own: a structure as one of the constructors     *)
(* builds it, and one call of get_component or has_component with any      *)
(* ComponentName, or the lookups one pass of the tick makes on it.         *)
(***************************************************************************)
ConstructorBuilt ==
    {BaseNew, PowerPlantNew, StorageNew, RefineryNew}
        \cup {MineNew(r) : r \in Resources}
        \cup {FactoryNew(c) : c \in Commodities}

BlueprintInit ==
    /\ \E s \in ConstructorBuilt :
         objects = [p \in Positions |-> IF p = 1 THEN s ELSE NoStructure]
    /\ order = <<1>>
    /\ energy_manager = EnergyManagerNew
    /\ resource_manager = ResourceManagerNew
    /\ pc = "blueprint"
    /\ idx = 1
    /\ ticks = 0
    /\ placements = 0
    /\ tally = TallyNew(energy_manager, resource_manager)
    /\ probe = NoProbe
    /\ events = EventBusNew
    /\ deposits = NoDeposits
    /\ position = PositionNew

CallGetComponent(name) ==
    /\ probe.op = "none"
    /\ LET r == get_component(objects[1], name) IN
         probe' = [op |-> "get_component", name |-> name, fault |-> r.fault,
                   component |-> r.component, ok |-> FALSE, lookups |-> {}]
    /\ UNCHANGED <<deposits, position, events, objects, order, energy_manager,
                   resource_manager, pc, idx, ticks, placements, tally>>

CallHasComponent(name) ==
    /\ probe.op = "none"
    /\ probe' = [op |-> "has_component", name |-> name, fault |-> FALSE,
                 component |-> "none", ok |-> has_component(objects[1], name),
                 lookups |-> {}]
    /\ UNCHANGED <<deposits, position, events, objects, order, energy_manager,
                   resource_manager, pc, idx, ticks, placements, tally>>

\* the visit of the structure by one pass: every lookup of the pass is made;
\* ok tells that every component found was of the variant the pass expects
PassVisit(pass) ==
    /\ probe.op = "none"
    /\ LET made == PassLookups(pass, objects[1]) IN
         probe' = [op |-> "pass", name |-> pass,
                   fault |-> \E l \in made : get_component(objects[1], l.name).fault,
                   component |-> "none",
                   ok |-> \A l \in made :
                            get_component(objects[1], l.name).component = l.variant,
                   lookups |-> made]
    /\ UNCHANGED <<deposits, position, events, objects, order, energy_manager,
                   resource_manager, pc, idx, ticks, placements, tally>>

BlueprintNext ==
    \/ \E name \in ComponentNames : CallGetComponent(name)
    \/ \E name \in ComponentNames : CallHasComponent(name)
    \/ \E pass \in PassNames : PassVisit(pass)

SpecBlueprint == BlueprintInit /\ [][BlueprintNext]_vars

(***************************************************************************)
(* The main loop under the event bus.  The three timer threads send their  *)
(* events into the channel whenever they run; the main thread takes the    *)
(* event at the head of the channel when the handler of the one before has *)
(* returned, and handles it.  An event is its kind and its number among    *)
(* the events of its thread.                                               *)
(***************************************************************************)
\* tx.send(..) of one of the timer threads
send(kind) ==
    /\ events.sent[kind] < MaxSends
    /\ events' = [events EXCEPT
                    !.rx = Append(@, [kind |-> kind, n |-> events.sent[kind] + 1]),
                    !.sent[kind] = @ + 1]
    /\ UNCHANGED <<deposits, position, objects, order, energy_manager,
                   resource_manager, pc, idx, ticks, placements, tally, probe>>

\* next() returning the event sent last instead of the one sent first
Received_newest(kind) ==
    /\ events.rx # <<>>
    /\ events.rx[Len(events.rx)].kind = kind
    /\ events' = [events EXCEPT !.rx = SubSeq(@, 1, Len(@) - 1), !.received[kind] = @ + 1]

\* events.next() has returned the event of this kind at the head of the channel
Received(kind) ==
    /\ events.rx # <<>>
    /\ Head(events.rx).kind = kind
    /\ events' = [events EXCEPT !.rx = Tail(@), !.received[kind] = @ + 1]

\* GameEvent::Update: the tick begins
HandleUpdate ==
    /\ pc = "idle"
    /\ Received("Update")
    /\ energy_manager' = zero(energy_manager)
    /\ pc' = "collect"
    /\ idx' = 1
    /\ tally' = TallyNew(energy_manager, resource_manager)
    /\ UNCHANGED <<deposits, position, objects, order, resource_manager, ticks,
                   placements, probe>>

\* GameEvent::Draw renders the map and changes nothing of the game
HandleDraw ==
    /\ pc = "idle"
    /\ Received("Draw")
    /\ UNCHANGED <<deposits, position, objects, order, energy_manager,
                   resource_manager, pc, idx, ticks, placements, tally, probe>>

\* GameEvent::Input with no key waiting, or a key that changes no structure
HandleInputNoKey ==
    /\ pc = "idle"
    /\ Received("Input")
    /\ UNCHANGED <<deposits, position, objects, order, energy_manager,
                   resource_manager, pc, idx, ticks, placements, tally, probe>>

\* the structures the Enter key places in these behaviours: the consumers
\* of energy among those the match on menu.selected() builds
MenuStructures == {s \in NewStructures : s.kind \in {"Mine", "Factory"}}

\* the main loop taking an Enter key while the Update handler is running
HandleInputEnter_mid_tick(p, s) ==
    /\ Received("Input")
    /\ p \in Placeable
    /\ objects' = [objects EXCEPT ![p] = s]
    /\ IF p \in Occupied THEN order' = order
       ELSE order' \in Orders(Occupied \cup {p})
    /\ placements' = placements + 1
    /\ deposits' = set_object(deposits, p, "none")
    /\ UNCHANGED <<position, energy_manager, resource_manager, pc, idx, ticks,
                   tally, probe>>

\* GameEvent::Input, KeyCode::Enter
HandleInputEnter(p, s) ==
    /\ pc = "idle"
    /\ Received("Input")
    /\ p \in Placeable
    /\ objects' = [objects EXCEPT ![p] = s]
    /\ IF p \in Occupied THEN order' = order
       ELSE order' \in Orders(Occupied \cup {p})
    /\ placements' = placements + 1
    /\ deposits' = set_object(deposits, p, "none")
    /\ UNCHANGED <<position, energy_manager, resource_manager, pc, idx, ticks,
                   tally, probe>>

\* GameEvent::Input, KeyCode::Delete
HandleInputDelete(p) ==
    /\ pc = "idle"
    /\ Received("Input")
    /\ p \in Occupied \/ deposits[p] # "none"
    /\ objects' = [objects EXCEPT ![p] = NoStructure]
    /\ order' = SelectSeq(order, LAMBDA q : q # p)
    /\ placements' = placements + 1
    /\ deposits' = remove_object(deposits, p)
    /\ UNCHANGED <<position, energy_manager, resource_manager, pc, idx, ticks,
                   tally, probe>>

EventsNext ==
    \/ \E kind \in EventKinds : send(kind)
    \/ HandleUpdate
    \/ HandleDraw
    \/ HandleInputNoKey
    \/ \E p \in Positions, s \in MenuStructures : HandleInputEnter(p, s)
    \/ \E p \in Positions : HandleInputDelete(p)
    \/ EnergyCollectVisit
    \/ EnergyCollectEnd
    \/ ProduceVisit
    \/ ProduceEnd
    \/ DischargeVisit
    \/ DischargeEnd
    \/ ChargeVisit
    \/ ChargeEnd

\* The loop taken up where earlier play has left a stockpile and a Base with
\* a charged battery, so that the ticks of the behaviours have energy to
\* collect, to draw from the battery and to charge.
EventsInit ==
    /\ objects = [p \in Positions |->
                    IF p = 1 THEN [BaseNew EXCEPT !.stored = 950] ELSE NoStructure]
    /\ order = <<1>>
    /\ resource_manager =
         [ResourceManagerNew EXCEPT
            !.resources = ("Aluminum" :> 6) @@ ("Carbon" :> 11) @@ ("Silica" :> 1500)]
    /\ energy_manager = EnergyManagerNew
    /\ pc = "idle"
    /\ idx = 1
    /\ ticks = 0
    /\ placements = 0
    /\ tally = TallyNew(energy_manager, resource_manager)
    /\ probe = NoProbe
    /\ events = EventBusNew
    /\ deposits = NoDeposits
    /\ position = PositionNew

SpecEvents == EventsInit /\ [][EventsNext]_vars

\* the loop of main: it handles the event next() returned and calls next()
\* again
HostLoop ==
    \/ HandleUpdate
    \/ HandleDraw
    \/ HandleInputNoKey
    \/ \E p \in Positions, s \in MenuStructures : HandleInputEnter(p, s)
    \/ \E p \in Positions : HandleInputDelete(p)
    \/ TickStep

\* the loop keeps running: it never stops before an event it can handle
SpecEventsFair == SpecEvents /\ WF_vars(HostLoop)

(***************************************************************************)
(* Properties.                                                             *)
(***************************************************************************)
TickDone == pc = "idle" /\ ticks > 0

\* C1: over a tick, the energy granted to Mines and Factories plus the
\* energy charged into Base batteries does not exceed the energy collected
\* in the collection pass plus the energy debited from Base batteries in
\* the discharge pass.
C1_EnergyConserved ==
    pc = "idle" => tally.granted + tally.charged <= tally.collected + tally.debited

\* C2, as claimed: after a tick every resource stock equals the stock before
\* the tick plus the amount produced minus the amount absorbed into Storage
\* structures, and every commodity stock equals the stock before the tick
\* plus the amount produced.
C2_StockIsProducedMinusAbsorbed ==
    pc = "idle" =>
        /\ \A r \in Resources :
             resource_manager.resources[r] =
                 tally.stock_before[r] + tally.produced[r] - tally.absorbed[r]
        /\ \A c \in Commodities :
             resource_manager.commodities[c] =
                 tally.commodity_before[c] + tally.commodity_produced[c]

\* C2, amended: after a tick every resource stock equals the stock before
\* the tick plus the amount produced by Mines minus the amount absorbed into
\* Storage structures minus the amount withdrawn by Factory recipes, and
\* every commodity stock equals the stock before the tick plus the amount
\* produced by Factories.
C2_MaterialsConserved ==
    pc = "idle" =>
        /\ \A r \in Resources :
             resource_manager.resources[r] =
                 tally.stock_before[r] + tally.produced[r] - tally.absorbed[r]
                     - tally.consumed[r]
        /\ \A c \in Commodities :
             resource_manager.commodities[c] =
                 tally.commodity_before[c] + tally.commodity_produced[c]

\* a tick has ended in which a Factory consumed stock and a Storage absorbed
\* what was left of it
C2_Witness ==
    /\ TickDone
    /\ \E r \in Resources : tally.consumed[r] > 0 /\ tally.absorbed[r] > 0
    /\ \E c \in Commodities : tally.commodity_produced[c] > 0

\* C3: in every reachable state every battery holds at most its capacity
\* and every resource and commodity slot of every structure holds at most
\* its capacity.
C3_CapacityInvariant ==
    \A p \in Positions :
        /\ objects[p].stored <= BatteryCapacity
        /\ \A r \in Resources : objects[p].resources[r] <= StorageCapacity
        /\ \A c \in Commodities : objects[p].commodities[c] <= StorageCapacity

\* a Base whose battery was charged up to its capacity with output left
\* over, next to a Storage filled up to its capacity with stock left over
C3_Witness ==
    /\ TickDone
    /\ energy_manager.output > 0
    /\ \E p \in Positions :
         objects[p].kind = "Base" /\ objects[p].stored = BatteryCapacity
    /\ \E p \in Positions, r \in Resources :
         /\ objects[p].kind = "Storage"
         /\ objects[p].resources[r] = StorageCapacity
         /\ resource_manager.resources[r] > 0

\* the production pass is about to visit a structure of this kind
Producing(kind) == pc = "produce" /\ Visiting /\ Current.kind = kind

\* C4: a visited Factory whose energy and every required resource are
\* available withdraws exactly energy_required from the ledger and exactly
\* the required amount of every required resource and adds commodity_out to
\* its commodity's stock; otherwise no stock and no EnergyManager field
\* changes and only its commodity's deficit grows, by commodity_out.
C4_FactoryAllOrNothing ==
    [][Producing("Factory") =>
        LET e == energy_manager
            m == resource_manager
            c == Current.commodity
            energy_required == energy_for_commodity(c)
            required == resources_for_commodity(c)
        IN  IF has_energy(e, energy_required)
               /\ \A r \in DOMAIN required : has_resource(m, r, required[r])
            THEN /\ energy_manager'.output + energy_manager'.stored
                       = e.output + e.stored - energy_required
                 /\ \A r \in DOMAIN required :
                       resource_manager'.resources[r] = m.resources[r] - required[r]
                 /\ \A r \in Resources \ DOMAIN required :
                       resource_manager'.resources[r] = m.resources[r]
                 /\ resource_manager'.commodities[c]
                       = m.commodities[c] + FactoryCommodityOut
                 /\ resource_manager'.commodities_deficit = m.commodities_deficit
            ELSE /\ energy_manager' = e
                 /\ resource_manager'.resources = m.resources
                 /\ resource_manager'.commodities = m.commodities
                 /\ resource_manager'.resources_deficit = m.resources_deficit
                 /\ resource_manager'.commodities_deficit =
                       [m.commodities_deficit EXCEPT ![c] = @ + FactoryCommodityOut]
    ]_vars

\* in one tick one Factory produced and another Factory, with the energy
\* and part of its required resources available, failed
C4_Witness ==
    /\ pc = "produce"
    /\ energy_manager.output + energy_manager.stored >= 40
    /\ \E r1, r2 \in DOMAIN resources_for_commodity("Semiconductor") :
         /\ has_resource(resource_manager, r1, resources_for_commodity("Semiconductor")[r1])
         /\ ~has_resource(resource_manager, r2, resources_for_commodity("Semiconductor")[r2])
    /\ tally.commodity_produced["Semiconductor"] > 0
    /\ resource_manager.commodities_deficit["Semiconductor"] > 0

\* a tick ends on a map holding one Mine and nothing else
LoneMineTickEnds ==
    /\ pc # "idle"
    /\ pc' = "idle"
    /\ Cardinality(Occupied) = 1
    /\ \A p \in Occupied : objects[p].kind = "Mine"

\* C5: a visited Mine with energy demand req either has the energy, and then
\* exactly req leaves the ledger and the stock of its resource grows by
\* resource_out, or it has not, and then output, stored and the stock are
\* unchanged, the energy deficit grows by req and the resource's deficit by
\* resource_out.  A tick over a lone Mine ends with an energy deficit of 25,
\* a deficit of the Mine's yield for its resource and the stock unchanged.
C5_MineAllOrNothing ==
    [][/\ Producing("Mine") =>
            LET e == energy_manager
                m == resource_manager
                r == Current.resource
                req == energy_in(Current)
            IN  IF has_energy(e, req)
                THEN /\ energy_manager'.output + energy_manager'.stored
                           = e.output + e.stored - req
                     /\ resource_manager'.resources[r]
                           = m.resources[r] + resource_out(Current)
                     /\ resource_manager'.resources_deficit = m.resources_deficit
                ELSE /\ energy_manager'.output = e.output
                     /\ energy_manager'.stored = e.stored
                     /\ energy_manager'.discharged = e.discharged
                     /\ resource_manager'.resources = m.resources
                     /\ energy_manager'.deficit = e.deficit + req
                     /\ resource_manager'.resources_deficit =
                           [m.resources_deficit EXCEPT ![r] = @ + resource_out(Current)]
       /\ LoneMineTickEnds =>
            \A p \in Occupied :
                /\ energy_manager'.deficit = 25
                /\ resource_manager'.resources_deficit[objects[p].resource]
                       = MineResourceOut
                /\ resource_manager'.resources = tally.stock_before
    ]_vars

\* a tick over a lone Mine and an empty stock has ended with the deficits
\* recorded
C5_Witness ==
    /\ TickDone
    /\ Cardinality(Occupied) = 1
    /\ \A p \in Occupied :
         /\ objects[p].kind = "Mine"
         /\ resource_manager.resources[objects[p].resource] = 0
         /\ resource_manager.resources_deficit[objects[p].resource] = MineResourceOut
    /\ energy_manager.deficit = 25
    /\ tally.unmet = 25

\* C6: withdraw(amount) on a ledger whose output covers the amount returns
\* the amount, takes exactly the amount from output and leaves stored,
\* discharged and deficit as they were.
C6_WithdrawOutputFirst ==
    (probe.op = "withdraw" /\ probe.before.output >= probe.amount) =>
        /\ probe.ret = probe.amount
        /\ energy_manager.output = probe.before.output - probe.amount
        /\ energy_manager.stored = probe.before.stored
        /\ energy_manager.discharged = probe.before.discharged
        /\ energy_manager.deficit = probe.before.deficit

\* a positive amount was withdrawn from a ledger that held it in output and
\* had stored energy besides
C6_Witness ==
    /\ probe.op = "withdraw"
    /\ probe.amount > 0
    /\ probe.before.output >= probe.amount
    /\ probe.before.stored > 0
    /\ probe.ret = probe.amount

\* C7: withdraw(amount) returns min(amount, output + stored), takes
\* min(amount, output) from output and the rest of what it returns from
\* stored, and adds what it took from stored to discharged.
C7_WithdrawAmounts ==
    probe.op = "withdraw" =>
        LET b == probe.before
            from_output == Min(probe.amount, b.output)
            from_stored == Min(probe.amount - from_output, b.stored)
        IN  /\ probe.ret = Min(probe.amount, b.output + b.stored)
            /\ energy_manager.output = b.output - from_output
            /\ energy_manager.stored = b.stored - from_stored
            /\ energy_manager.discharged = b.discharged + from_stored
            /\ probe.ret = from_output + from_stored

\* an amount larger than output and stored together was asked of a ledger
\* holding both: all of it was returned and stored was moved to discharged
C7_Witness ==
    /\ probe.op = "withdraw"
    /\ probe.before.output > 0
    /\ probe.before.stored > 0
    /\ probe.amount > probe.before.output + probe.before.stored
    /\ probe.ret = probe.before.output + probe.before.stored
    /\ energy_manager.discharged = probe.before.discharged + probe.before.stored

\* C8: after a tick the energy deficit is the sum of the energy demands of
\* the Mines that failed to produce in it; it is 0 when every demand was
\* met, also when batteries served part of the demand.
C8_DeficitIsUnmetDemand ==
    pc = "idle" => energy_manager.deficit = tally.unmet

\* C9: has_energy(amount) holds exactly when output and stored together
\* cover the amount, equality included, and it changes no ledger field.
C9_HasEnergy ==
    probe.op = "has_energy" =>
        /\ probe.ok = (probe.before.output + probe.before.stored >= probe.amount)
        /\ energy_manager = probe.before

\* has_energy held for an amount that output alone does not cover and that
\* output and stored together equal
C9_Witness ==
    /\ probe.op = "has_energy"
    /\ probe.ok
    /\ probe.before.output < probe.amount
    /\ probe.before.output + probe.before.stored = probe.amount

PhaseSteps ==
    {<<"idle", "collect">>, <<"collect", "produce">>, <<"produce", "discharge">>,
     <<"produce", "charge">>, <<"produce", "idle">>, <<"discharge", "charge">>,
     <<"discharge", "idle">>, <<"charge", "idle">>}

\* C10: a tick goes through reset, energy collection, production, discharge
\* and charge in this order; a pass visits the structures one after the
\* other and is left only when every structure has been visited; the
\* discharge pass is entered only with discharged > 0, the charge pass only
\* with output > 0, and the map does not change during the tick.
C10_PhaseOrder ==
    [][/\ pc' # pc =>
            /\ <<pc, pc'>> \in PhaseSteps
            /\ pc # "idle" => idx > Len(order)
            /\ idx' = 1
            /\ pc' = "collect" => energy_manager' = EnergyManagerNew
            /\ pc' = "discharge" => energy_manager.discharged > 0
            /\ pc' = "charge" => energy_manager.output > 0
       /\ (pc' = pc /\ pc # "idle") =>
            /\ idx <= Len(order)
            /\ idx' = idx + 1
       /\ pc # "idle" => order' = order
    ]_vars

\* the discharge pass of a tick has gone over a map of two structures and
\* has debited a battery
C10_Witness ==
    /\ pc = "discharge"
    /\ Len(order) >= 2
    /\ idx > Len(order)
    /\ tally.debited > 0
    /\ energy_manager.discharged = 0

NoDeficit(m) ==
    /\ \A r \in Resources : m.resources_deficit[r] = 0
    /\ \A c \in Commodities : m.commodities_deficit[c] = 0

C12_StockPersists ==
    [][(pc = "idle" \/ pc = "collect") =>
            /\ resource_manager'.resources = resource_manager.resources
            /\ resource_manager'.commodities = resource_manager.commodities
    ]_vars

\* the production pass of a later tick begins, after a reset that cleared a
\* commodity deficit and non-zero energy fields, with the resource and
\* commodity stock the previous tick ended with
C12_Witness ==
    /\ pc = "produce"
    /\ idx = 1
    /\ ticks >= 1
    /\ tally.energy_before # EnergyManagerNew
    /\ \E c \in Commodities : tally.commodities_deficit_before[c] > 0
    /\ NoDeficit(resource_manager)
    /\ \E r \in Resources : resource_manager.resources[r] > 0
    /\ \E c \in Commodities : resource_manager.commodities[c] > 0
    /\ resource_manager.resources = tally.stock_before
    /\ resource_manager.commodities = tally.commodity_before

\* C13: a visited Storage takes, of every resource with a positive stock,
\* the smaller of the stock and the free capacity of its slot: the slot
\* grows and the stock of the ledger drops by exactly that amount; slots of
\* resources without stock, and the commodity stock, do not change.
C13_StorageIntake ==
    [][Producing("Storage") =>
        /\ \A r \in Resources :
             LET stock == resource_manager.resources[r]
                 free == StorageCapacity - Current.resources[r]
                 moved == IF stock > 0 THEN Min(stock, free) ELSE 0
             IN  /\ objects'[order[idx]].resources[r] = Current.resources[r] + moved
                 /\ resource_manager'.resources[r] = stock - moved
        /\ resource_manager'.commodities = resource_manager.commodities
    ]_vars

\* an empty Storage of capacity 1000 was visited with a stock of 1500: it
\* holds 1000 and the stock is 500
C13_Witness ==
    /\ pc = "produce"
    /\ tally.stock_before["Silica"] = 1500
    /\ tally.absorbed["Silica"] = StorageCapacity
    /\ resource_manager.resources["Silica"] = 500
    /\ \E p \in Positions :
         /\ objects[p].kind = "Storage"
         /\ objects[p].resources["Silica"] = StorageCapacity

\* C14: resource_add(kind, amount) and commodity_add(kind, amount) return
\* accepted = min(amount, capacity - stored), raise the stored value of that
\* kind by exactly accepted and leave every other kind unchanged; accepted
\* is 0 when the slot is full.
C14_ClampedAdd ==
    probe.op \in {"resource_add", "commodity_add"} =>
        LET before == IF probe.op = "resource_add" THEN probe.before.resources
                      ELSE probe.before.commodities
            after == IF probe.op = "resource_add" THEN objects[1].resources
                     ELSE objects[1].commodities
            accepted == Min(probe.amount, StorageCapacity - before[probe.kind])
        IN  /\ probe.outcome = "returned"
            /\ probe.ret = accepted
            /\ after = [before EXCEPT ![probe.kind] = @ + accepted]
            /\ probe.op = "resource_add" =>
                  objects[1].commodities = probe.before.commodities
            /\ probe.op = "commodity_add" =>
                  objects[1].resources = probe.before.resources
            /\ before[probe.kind] = StorageCapacity => probe.ret = 0

\* C15: withdraw_resource and withdraw_commodity remove and return
\* min(amount, stock) of the kind asked for; the stock stays at or above
\* zero and no other stock and no deficit changes; a deposit of an amount
\* followed by a withdraw of the same amount returns the amount and leaves
\* the ledger as it was before the deposit.
C15_MaterialWithdraw ==
    /\ probe.op \in {"withdraw_resource", "withdraw_commodity"} =>
         LET resource == probe.op = "withdraw_resource"
             before == IF resource THEN probe.before.resources
                       ELSE probe.before.commodities
             after == IF resource THEN resource_manager.resources
                      ELSE resource_manager.commodities
             taken == Min(probe.amount, before[probe.kind])
         IN  /\ probe.ret = taken
             /\ after = [before EXCEPT ![probe.kind] = @ - taken]
             /\ after[probe.kind] >= 0
             /\ resource_manager =
                    IF resource THEN [probe.before EXCEPT !.resources = after]
                    ELSE [probe.before EXCEPT !.commodities = after]
    /\ probe.op \in {"deposit_withdraw_resource", "deposit_withdraw_commodity"} =>
         LET before == IF probe.op = "deposit_withdraw_resource"
                       THEN probe.before.resources
                       ELSE probe.before.commodities
         IN  /\ probe.deposited = before[probe.kind] + probe.amount
             /\ probe.ret = probe.amount
             /\ resource_manager = probe.before

\* more than the stock was asked of a commodity with a positive stock, on a
\* ledger holding other stock and deficits besides: the stock was returned
\* and the commodity is at zero
C15_Witness ==
    /\ probe.op = "withdraw_commodity"
    /\ probe.before.commodities[probe.kind] > 0
    /\ probe.amount > probe.before.commodities[probe.kind]
    /\ probe.ret = probe.before.commodities[probe.kind]
    /\ resource_manager.commodities[probe.kind] = 0
    /\ \E r \in Resources : resource_manager.resources[r] > 0
    /\ \E r \in Resources : resource_manager.resources_deficit[r] > 0

\* C16: has_resource(kind, amount) holds exactly when the stock is strictly
\* greater than the amount.  A visited Factory that has its energy produces
\* exactly when the stock of every required resource is strictly greater
\* than the required amount; a Factory that needs exactly the stock of some
\* required resource does not produce and consumes nothing.
C16_HasIsStrict ==
    [][Producing("Factory") =>
        LET e == energy_manager
            m == resource_manager
            c == Current.commodity
            required == resources_for_commodity(c)
            made == resource_manager'.commodities[c]
                        = m.commodities[c] + FactoryCommodityOut
        IN  /\ \A r \in DOMAIN required :
                 has_resource(m, r, required[r]) <=> m.resources[r] > required[r]
            /\ has_energy(e, energy_for_commodity(c)) =>
                 (made <=> \A r \in DOMAIN required : m.resources[r] > required[r])
            /\ (\E r \in DOMAIN required : m.resources[r] = required[r]) =>
                 /\ ~made
                 /\ resource_manager'.resources = m.resources
                 /\ energy_manager' = e
                 /\ resource_manager'.commodities_deficit[c]
                        = m.commodities_deficit[c] + FactoryCommodityOut
    ]_vars

\* a Factory with its energy at hand, more Aluminum and Silica than its
\* recipe needs and exactly the 10 Carbon it needs has been visited and has
\* not produced
C16_Witness ==
    /\ pc = "produce"
    /\ idx > 1
    /\ objects[order[idx - 1]].kind = "Factory"
    /\ objects[order[idx - 1]].commodity = "Semiconductor"
    /\ energy_manager.output >= energy_for_commodity("Semiconductor")
    /\ resource_manager.resources["Carbon"] = resources_for_commodity("Semiconductor")["Carbon"]
    /\ resource_manager.resources["Aluminum"] > resources_for_commodity("Semiconductor")["Aluminum"]
    /\ resource_manager.resources["Silica"] > resources_for_commodity("Semiconductor")["Silica"]
    /\ tally.commodity_produced["Semiconductor"] = 0
    /\ resource_manager.commodities_deficit["Semiconductor"] = FactoryCommodityOut

\* the sum of energy_out over the placed Bases and PowerPlants
PlacedEnergyOut ==
    SumOver([p \in Positions |->
                CASE objects[p].kind = "Base" -> BaseEnergyOut
                  [] objects[p].kind = "PowerPlant" -> PowerPlantEnergyOut
                  [] OTHER -> 0],
            Positions)

\* the sum of the stored values of the batteries of the placed Bases
PlacedBatteryStored ==
    SumOver([p \in Positions |->
                IF objects[p].kind = "Base" THEN objects[p].stored ELSE 0],
            Positions)

\* C17: no step of the energy collection pass changes a structure, and when
\* the pass ends output is the sum of energy_out over the placed Bases and
\* PowerPlants and stored is the sum of the stored values of the batteries
\* of the placed Bases.
C17_EnergyCollected ==
    [][pc = "collect" =>
        /\ objects' = objects
        /\ pc' = "produce" =>
             /\ energy_manager'.output = PlacedEnergyOut
             /\ energy_manager'.stored = PlacedBatteryStored
             /\ energy_manager'.discharged = 0
             /\ energy_manager'.deficit = 0
    ]_vars

\* the collection pass has ended on a map holding a PowerPlant and a Base
\* whose battery is charged: output holds both outputs, stored the battery
C17_Witness ==
    /\ pc = "produce"
    /\ idx = 1
    /\ \E p \in Positions : objects[p].kind = "PowerPlant"
    /\ \E p \in Positions : objects[p].kind = "Base" /\ objects[p].stored > 0
    /\ energy_manager.output >= BaseEnergyOut + PowerPlantEnergyOut
    /\ energy_manager.stored = PlacedBatteryStored
    /\ energy_manager.stored > 0

\* C18: a visit of the discharge pass takes from the battery of a Base the
\* smaller of its stored value and the ledger's discharged, lowers
\* discharged by exactly that amount and changes nothing else; a structure
\* that is not a Base is not changed.  When the pass ends the batteries
\* have given, in total, the discharged value the pass began with, and
\* discharged is 0.
C18_DischargeReconciles ==
    [][pc = "discharge" =>
        /\ Visiting =>
             LET s == Current
                 given == IF s.kind = "Base"
                          THEN Min(s.stored, energy_manager.discharged)
                          ELSE 0
             IN  /\ objects' = [objects EXCEPT ![order[idx]].stored = @ - given]
                 /\ energy_manager' =
                        [energy_manager EXCEPT !.discharged = @ - given]
                 /\ tally'.debited = tally.debited + given
        /\ ~Visiting =>
             /\ tally.debited = tally.discharge_due
             /\ energy_manager.discharged = 0
    ]_vars

\* the discharge pass has ended on a map of a Base, a Mine and a Factory:
\* the 15 units the production pass drew from stored have left the battery
C18_Witness ==
    /\ pc = "discharge"
    /\ ~Visiting
    /\ tally.discharge_due = 15
    /\ tally.debited = 15
    /\ energy_manager.discharged = 0
    /\ \E p \in Positions : objects[p].kind = "Base" /\ objects[p].stored = 935
    /\ \E p \in Positions : objects[p].kind = "Mine"
    /\ \E p \in Positions : objects[p].kind = "Factory"

\* C19: a visit of the charge pass never raises output; it raises the
\* battery of a visited Base by exactly what it takes from output and
\* changes nothing when the visited structure is not a Base.  When the pass
\* ends the batteries have gained, in total, the smaller of the output the
\* pass began with and the free capacity the batteries had then, and output
\* has dropped by the same amount.
C19_ChargeOnlyMovesOutput ==
    [][pc = "charge" =>
        /\ Visiting =>
             /\ energy_manager'.output <= energy_manager.output
             /\ objects'[order[idx]].stored - Current.stored
                    = energy_manager.output - energy_manager'.output
             /\ Current.kind # "Base" =>
                    /\ objects' = objects
                    /\ energy_manager' = energy_manager
        /\ ~Visiting =>
             /\ tally.charged = Min(tally.charge_due, tally.charge_room)
             /\ energy_manager.output = tally.charge_due - tally.charged
    ]_vars

\* a first tick ends on a map holding one PowerPlant and one Mine and
\* nothing else, both ledgers having been empty when it began
ScenarioATickEnds ==
    /\ pc # "idle"
    /\ pc' = "idle"
    /\ ticks = 0
    /\ Cardinality(Occupied) = 2
    /\ \E p \in Occupied : objects[p].kind = "PowerPlant"
    /\ \E p \in Occupied : objects[p].kind = "Mine"
    /\ tally.energy_before = EnergyManagerNew
    /\ \A r \in Resources : tally.stock_before[r] = 0
    /\ \A c \in Commodities : tally.commodity_before[c] = 0

\* C20: with one PowerPlant and one Mine placed and both ledgers empty, one
\* complete tick ends with output = 75 and a stock of 100 of the Mine's
\* resource.
C20_ScenarioA ==
    [][ScenarioATickEnds =>
        \A p \in Occupied :
            objects[p].kind = "Mine" =>
                /\ energy_manager'.output = 75
                /\ resource_manager'.resources[objects[p].resource] = 100
    ]_vars

(***************************************************************************)
(* Scenario C and the failure semantics of the tick.                       *)
(***************************************************************************)
\* the map holds one Base and nothing else
LoneBase ==
    /\ Cardinality(Occupied) = 1
    /\ \A p \in Occupied : objects[p].kind = "Base"

\* C21: on a map holding one Base and nothing else, a tick collects an
\* output of 50 and its charge pass moves min(50, free capacity) of it into
\* the battery; a battery that was empty holds 50 after the tick and the
\* output of the ledger is 0.
C21_ScenarioC ==
    (LoneBase /\ pc = "charge" /\ ~Visiting) =>
        LET b == objects[order[1]]
            before == BatteryCapacity - tally.charge_room
        IN  /\ tally.collected = BaseEnergyOut
            /\ tally.charge_due = BaseEnergyOut
            /\ b.stored = before + Min(BaseEnergyOut, tally.charge_room)
            /\ energy_manager.output = BaseEnergyOut - Min(BaseEnergyOut, tally.charge_room)
            /\ before = 0 => (b.stored = 50 /\ energy_manager.output = 0)

C21_Witness ==
    /\ LoneBase
    /\ pc = "charge"
    /\ ~Visiting
    /\ tally.charge_room = BatteryCapacity
    /\ objects[order[1]].stored = 50
    /\ energy_manager.output = 0

\* every amount of the ledgers and of the structures is a u64: a subtraction
\* that went below zero is a fault of the tick
NoUnderflow ==
    /\ \A f \in {"output", "stored", "discharged", "deficit"} : energy_manager[f] >= 0
    /\ \A r \in Resources :
         resource_manager.resources[r] >= 0 /\ resource_manager.resources_deficit[r] >= 0
    /\ \A c \in Commodities :
         resource_manager.commodities[c] >= 0 /\ resource_manager.commodities_deficit[c] >= 0
    /\ \A p \in Positions :
         /\ objects[p].stored >= 0
         /\ objects[p].kind = "Storage" =>
              /\ \A r \in Resources : objects[p].resources[r] >= 0
              /\ \A c \in Commodities : objects[p].commodities[c] >= 0

\* the production pass visits a Mine or a Factory and nothing is produced
UnmetVisit ==
    /\ Producing("Mine") \/ Producing("Factory")
    /\ tally'.produced = tally.produced
    /\ tally'.commodity_produced = tally.commodity_produced

\* no deficit of the ledgers is lowered by the step
DeficitsGrow ==
    /\ energy_manager'.deficit >= energy_manager.deficit
    /\ \A r \in Resources :
         resource_manager'.resources_deficit[r] >= resource_manager.resources_deficit[r]
    /\ \A c \in Commodities :
         resource_manager'.commodities_deficit[c] >=
             resource_manager.commodities_deficit[c]

\* C22: a tick does not fault on a shortfall: whatever the ledgers hold and
\* whichever structures are placed, no amount goes below zero, a visit that
\* produces nothing changes only deficits, which it raises, and the tick
\* that has begun runs to its end.
C22_NoFaultOnShortfall ==
    /\ []NoUnderflow
    /\ [][UnmetVisit =>
            /\ objects' = objects
            /\ energy_manager' = [energy_manager EXCEPT !.deficit = energy_manager'.deficit]
            /\ resource_manager'.resources = resource_manager.resources
            /\ resource_manager'.commodities = resource_manager.commodities
            /\ DeficitsGrow
            /\ <<energy_manager'.deficit, resource_manager'.resources_deficit,
                 resource_manager'.commodities_deficit>> #
               <<energy_manager.deficit, resource_manager.resources_deficit,
                 resource_manager.commodities_deficit>>
       ]_vars
    /\ (pc # "idle") ~> (pc = "idle")

\* a tick has ended on a map holding a Mine and a Factory, with no energy
\* and no stock at all, and the demand of both is in the deficits
C22_Witness ==
    /\ TickDone
    /\ Cardinality(Occupied) = 2
    /\ \E p \in Occupied : objects[p].kind = "Mine"
    /\ \E p \in Occupied : objects[p].kind = "Factory"
    /\ tally.collected = 0
    /\ \A r \in Resources : tally.stock_before[r] = 0
    /\ energy_manager.deficit = MineEnergyIn
    /\ resource_manager.resources_deficit["Carbon"] = MineResourceOut
    /\ resource_manager.commodities_deficit["Semiconductor"] = FactoryCommodityOut

\* the component names each constructor registers, as read off the
\* constructors
Registered(kind) ==
    CASE kind = "Base" -> {"EnergyComponent", "BatteryComponent", "ResourceStorageComponent"}
      [] kind = "PowerPlant" -> {"EnergyComponent"}
      [] kind = "Mine" -> {"EnergyComponent", "MineOutputComponent"}
      [] kind = "Storage" -> {"ResourceStorageComponent", "CommodityStorageComponent"}
      [] kind = "Factory" -> {"EnergyComponent", "FactoryOutputComponent"}
      [] kind = "Refinery" -> {"EnergyComponent", "FactoryOutputComponent"}
      [] OTHER -> {}

C24_RefineryAllOrNothing ==
    [][Producing("Refinery") =>
        LET e == energy_manager
            m == resource_manager
            req == energy_in(Current)
        IN  \/ /\ e.output + e.stored >= req
               /\ energy_manager'.output + energy_manager'.stored =
                      e.output + e.stored - req
            \/ /\ energy_manager'.output = e.output
               /\ energy_manager'.stored = e.stored
               /\ resource_manager'.resources = m.resources
               /\ resource_manager'.commodities = m.commodities
               /\ \/ energy_manager'.deficit > e.deficit
                  \/ resource_manager'.resources_deficit # m.resources_deficit
                  \/ resource_manager'.commodities_deficit # m.commodities_deficit
    ]_vars

(***************************************************************************)
(* The Storage structures within the production pass.                      *)
(***************************************************************************)
\* C25: when the production pass visits two Storage structures one after
\* the other and nothing is mined or consumed between the two visits, the
\* first accepts min(stock, its free capacity) of every resource, the
\* second finds only what the first left and accepts min of that and its
\* own free capacity, and the two together accept min(stock, combined free
\* capacity).
C25_StoragePriority ==
    \A j \in 2..Len(tally.intake) :
        LET first == tally.intake[j - 1]
            later == tally.intake[j]
        IN  \A r \in Resources :
                (later.produced[r] = first.produced[r]
                    /\ later.consumed[r] = first.consumed[r]) =>
                /\ first.accepted[r] = Min(first.stock[r], first.free[r])
                /\ later.stock[r] = first.stock[r] - first.accepted[r]
                /\ later.accepted[r] = Min(later.stock[r], later.free[r])
                /\ first.accepted[r] + later.accepted[r] =
                       Min(first.stock[r], first.free[r] + later.free[r])

\* two Storages met a stock of 1500, less than their combined free capacity
\* of 2000: the first took 1000 and the second the 500 left
C25_Witness ==
    /\ Len(tally.intake) = 2
    /\ tally.intake[1].stock["Silica"] = 1500
    /\ tally.intake[1].free["Silica"] = StorageCapacity
    /\ tally.intake[2].free["Silica"] = StorageCapacity
    /\ tally.intake[1].accepted["Silica"] = 1000
    /\ tally.intake[2].accepted["Silica"] = 500
    /\ resource_manager.resources["Silica"] = 0

(***************************************************************************)
(* The tick under the event bus.                                           *)
(***************************************************************************)
\* C26: whatever the timer threads send and whenever they send it, while a
\* tick is running no event is taken from the channel, so that no Input and
\* no Draw is handled and no structure is placed or removed between the
\* reset and the end of the charge pass; and every Update received has
\* begun exactly one run of the passes, which is complete when the handler
\* is idle again.
C26_TickNotInterleaved ==
    /\ [][pc # "idle" =>
            /\ events'.received = events.received
            /\ Len(events'.rx) >= Len(events.rx)
            /\ placements' = placements
            /\ order' = order
            /\ \A p \in Positions : objects'[p].kind = objects[p].kind
       ]_vars
    /\ [](ticks = events.received["Update"] - (IF pc = "idle" THEN 0 ELSE 1))

\* an Input event and a Draw event have arrived while the production pass
\* of a tick is at work on a map that holds a structure
C26_Witness ==
    /\ pc = "produce"
    /\ Visiting
    /\ \E i \in 1..Len(events.rx) : events.rx[i].kind = "Input"
    /\ \E i \in 1..Len(events.rx) : events.rx[i].kind = "Draw"
    /\ events.received["Input"] > 0

\* C27, as claimed: the Storage structures take their intake after the
\* production of the tick: whatever the visiting order, every amount a
\* Mine deposits in a tick is in the stock before any Storage of that tick
\* is visited.
C27_IntakeAfterProduction ==
    (pc = "produce" /\ ~Visiting) =>
        \A i \in 1..Len(tally.intake) : tally.intake[i].produced = tally.produced

\* what the Storages visited before the i-th one of the tick accepted of r
AcceptedBefore(i, r) ==
    SumOver([k \in 1..Len(tally.intake) |-> tally.intake[k].accepted[r]], 1..(i - 1))

\* C27, as amended: the Storage structures take their intake within the
\* production pass.  A visited Storage is offered the stock as it is at its
\* visit: the stock at the beginning of the tick, plus what the Mines
\* visited before it deposited, less what the Factories and Storages
\* visited before it took; it accepts min(that, its free capacity).  What
\* is mined or consumed after the last Storage was visited moves the stock
\* the pass leaves behind and no Storage.
C27_IntakeWithinProduction ==
    /\ \A i \in 1..Len(tally.intake), r \in Resources :
         LET v == tally.intake[i] IN
           /\ v.stock[r] = tally.stock_before[r] + v.produced[r] - v.consumed[r]
                              - AcceptedBefore(i, r)
           /\ v.accepted[r] = Min(v.stock[r], v.free[r])
    /\ (pc = "produce" /\ ~Visiting /\ tally.intake # <<>>) =>
         \A r \in Resources :
            LET v == tally.intake[Len(tally.intake)] IN
            resource_manager.resources[r] =
                (v.stock[r] - v.accepted[r]) + (tally.produced[r] - v.produced[r])
                    - (tally.consumed[r] - v.consumed[r])

\* a Storage visited after a Mine has taken the unit the Mine deposited in
\* the same tick
C27_Witness ==
    /\ pc = "produce"
    /\ ~Visiting
    /\ Len(tally.intake) = 1
    /\ tally.intake[1].produced["Carbon"] = MineResourceOut
    /\ tally.intake[1].stock["Carbon"] = tally.stock_before["Carbon"] + MineResourceOut
    /\ tally.intake[1].accepted["Carbon"] = tally.intake[1].stock["Carbon"]
    /\ resource_manager.resources["Carbon"] = 0

\* C28: the visit of a PowerPlant or of a Base by the production pass
\* changes no field of the EnergyManager, no stock and no deficit of the
\* ResourceManager, and nothing of any structure, the battery and the
\* resource storage of the visited one included.
C28_NoConsumptionAction ==
    [][(Producing("PowerPlant") \/ Producing("Base")) =>
        /\ energy_manager' = energy_manager
        /\ resource_manager' = resource_manager
        /\ objects' = objects
    ]_vars

\* the production pass has gone past a Base whose battery holds energy,
\* with output collected and a stock a Storage would take
C28_Witness ==
    /\ pc = "produce"
    /\ idx > 1
    /\ objects[order[idx - 1]].kind = "Base"
    /\ objects[order[idx - 1]].stored > 0
    /\ energy_manager.output >= BaseEnergyOut
    /\ energy_manager.stored > 0
    /\ \A r \in Resources : resource_manager.resources[r] > 0
    /\ \A r \in Resources : objects[order[idx - 1]].resources[r] = 0

\* the energy a Mine or a Factory asks of the ledger in the production pass
EnergyRequired(s) ==
    IF s.kind = "Mine" THEN energy_in(s)
    ELSE IF s.kind = "Factory" THEN energy_for_commodity(s.commodity)
    ELSE 0

\* C29: a visited Mine or Factory either is granted by withdraw exactly the
\* energy it requires, the ledger holding at least that much in output and
\* stored together, or takes no energy at all: output, stored and
\* discharged are as before and nothing is produced.  The ledger is never
\* left partially consumed by a structure that fails.
C29_WithdrawReturnsRequest ==
    [][(Producing("Mine") \/ Producing("Factory")) =>
        LET e == energy_manager
            req == EnergyRequired(Current)
        IN  \/ /\ e.output + e.stored >= req
               /\ tally'.granted = tally.granted + req
               /\ energy_manager'.output + energy_manager'.stored =
                      e.output + e.stored - req
            \/ /\ tally'.granted = tally.granted
               /\ energy_manager'.output = e.output
               /\ energy_manager'.stored = e.stored
               /\ energy_manager'.discharged = e.discharged
               /\ tally'.produced = tally.produced
               /\ tally'.commodity_produced = tally.commodity_produced
    ]_vars

\* the production pass is about to visit a Mine or a Factory with some
\* energy in the ledger, less than the structure requires, after another
\* structure has been granted its energy in the same tick
C29_Witness ==
    /\ Producing("Mine") \/ Producing("Factory")
    /\ energy_manager.output + energy_manager.stored > 0
    /\ energy_manager.output + energy_manager.stored < EnergyRequired(Current)
    /\ tally.granted > 0

\* C30: from the end of the energy collection to the beginning of the
\* discharge pass, stored and discharged of the EnergyManager add up to the
\* energy held by the batteries of the placed Bases, so that discharged is
\* never more than the batteries hold; and the discharge pass ends with
\* discharged back at 0.
C30_StoredPlusDischarged ==
    /\ pc = "produce" =>
         /\ energy_manager.stored + energy_manager.discharged = PlacedBatteryStored
         /\ energy_manager.discharged <= PlacedBatteryStored
    /\ (pc = "discharge" /\ idx = 1) =>
         energy_manager.stored + energy_manager.discharged = PlacedBatteryStored
    /\ (pc = "discharge" /\ ~Visiting) => energy_manager.discharged = 0

\* a discharge pass that began with discharged > 0 and energy left in
\* stored has ended, and the batteries hold what stored says
C30_Witness ==
    /\ pc = "discharge"
    /\ ~Visiting
    /\ tally.discharge_due > 0
    /\ tally.debited = tally.discharge_due
    /\ energy_manager.stored > 0
    /\ energy_manager.discharged = 0
    /\ PlacedBatteryStored = energy_manager.stored

(***************************************************************************)
(* The batteries over the ticks.                                           *)
(***************************************************************************)
\* C31: once energy has been drawn from the battery reserves in a production
\* pass, the output of the ledger is 0 for the rest of the pass, and so at
\* its end; hence no tick both debits a battery in its discharge pass and
\* charges one in its charge pass.
C31_DischargedMeansNoOutput ==
    /\ (pc = "produce" /\ energy_manager.discharged > 0) => energy_manager.output = 0
    /\ ~(tally.debited > 0 /\ tally.charged > 0)
    /\ pc = "charge" => (tally.discharge_due = 0 /\ tally.debited = 0)

\* a discharge pass has debited a battery and ends with no output for a
\* charge pass to move
C31_Witness ==
    /\ pc = "discharge"
    /\ ~Visiting
    /\ tally.discharge_due > 0
    /\ tally.debited > 0
    /\ tally.collected > 0
    /\ energy_manager.output = 0

(***************************************************************************)
(* The whole tick under a given iteration order.                           *)
(***************************************************************************)
\* one structure of the loop of a pass, on st = [objects, e, m]
PassVisitAt(pass, p, st) ==
    LET s == st.objects[p] IN
    CASE pass = "collect" ->
            [st EXCEPT !.e = EnergyCollectArm(s, st.e)]
      [] pass = "produce" ->
            LET r == CollectArm(s, st.e, st.m) IN
            [objects |-> [st.objects EXCEPT ![p] = r.s], e |-> r.e, m |-> r.m]
      [] pass = "discharge" ->
            LET r == DischargeArm(s, st.e) IN
            [st EXCEPT !.objects = [st.objects EXCEPT ![p] = r.s], !.e = r.e]
      [] pass = "charge" ->
            LET r == ChargeArm(s, st.e) IN
            [st EXCEPT !.objects = [st.objects EXCEPT ![p] = r.s], !.e = r.e]

RECURSIVE PassOver(_, _, _, _)
\* the loop of a pass over the structures in the order o, from the i-th on
PassOver(pass, o, i, st) ==
    IF i > Len(o) THEN st
    ELSE PassOver(pass, o, i + 1, PassVisitAt(pass, o[i], st))

\* GameEvent::Update from the reset of the ledgers to the end of the tick,
\* the map iterating in the order o
update_tick(objs, o, e, m) ==
    LET collected == PassOver("collect", o, 1, [objects |-> objs, e |-> zero(e), m |-> m])
        produced == PassOver("produce", o, 1,
                             [collected EXCEPT !.m = zero_deficit(collected.m)])
        discharged == IF AfterProduce(produced.e) = "discharge"
                      THEN PassOver("discharge", o, 1, produced)
                      ELSE produced
        to_charge == IF AfterProduce(produced.e) = "discharge"
                     THEN AfterDischarge(discharged.e) = "charge"
                     ELSE AfterProduce(produced.e) = "charge"
    IN  IF to_charge THEN PassOver("charge", o, 1, discharged) ELSE discharged

\* the energy held in the batteries of the Bases of a map
BatteryTotal(objs) ==
    SumOver([p \in Positions |-> IF objs[p].kind = "Base" THEN objs[p].stored ELSE 0],
            Positions)

\* C32: for the structures placed and the state before a tick, the energy
\* held in the batteries of the Bases after the tick is the same for every
\* order in which the map may iterate.
C32_OrderIndependentBatteries ==
    pc = "idle" =>
        \A o1, o2 \in Orders(Occupied) :
            BatteryTotal(update_tick(objects, o1, energy_manager, resource_manager).objects)
                = BatteryTotal(update_tick(objects, o2, energy_manager,
                                           resource_manager).objects)

(***************************************************************************)
(* A Base alone on the map, tick after tick.                               *)
(***************************************************************************)
\* the ticks of the run: the battery of a fresh Base is full after
\* BatteryCapacity / BaseEnergyOut = 20 of them
LoneBaseTicks == 22

\* GameEvent::Update of the long run
LoneBaseUpdate ==
    /\ pc = "idle"
    /\ ticks < LoneBaseTicks
    /\ energy_manager' = zero(energy_manager)
    /\ pc' = "collect"
    /\ idx' = 1
    /\ tally' = TallyNew(energy_manager, resource_manager)
    /\ UNCHANGED <<deposits, position, events, objects, order,
                   resource_manager, ticks, placements, probe>>

\* a fresh Base placed on the empty map of a new game
LoneBaseInit ==
    /\ objects = [p \in Positions |-> IF p = 1 THEN BaseNew ELSE NoStructure]
    /\ order = <<1>>
    /\ energy_manager = EnergyManagerNew
    /\ resource_manager = ResourceManagerNew
    /\ pc = "idle"
    /\ idx = 1
    /\ ticks = 0
    /\ placements = 0
    /\ tally = TallyNew(energy_manager, resource_manager)
    /\ probe = NoProbe
    /\ events = EventBusNew
    /\ deposits = NoDeposits
    /\ position = PositionNew

LoneBaseNext ==
    \/ LoneBaseUpdate
    \/ EnergyCollectVisit
    \/ EnergyCollectEnd
    \/ ProduceVisit
    \/ ProduceEnd
    \/ ChargeVisit
    \/ ChargeEnd

SpecLoneBase == LoneBaseInit /\ [][LoneBaseNext]_vars

\* the update thread sends GameEvent::Update for as long as the game runs,
\* and the loop of main handles every event it receives
SpecLoneBaseFair == SpecLoneBase /\ WF_vars(LoneBaseNext)

LoneBattery == objects[1].stored

\* C33: with a Base alone on the map, every tick raises the stored value of
\* its battery by 50 until it is 1000 and no step changes it otherwise; the
\* battery becomes full and stays full for ever; a tick that finds it full
\* stores nothing and leaves its 50 units of output in the ledger until the
\* reset of the next tick clears them.
C33_LoneBaseFills ==
    /\ [][LoneBattery' = IF pc = "charge" /\ Visiting
                         THEN Min(LoneBattery + BaseEnergyOut, BatteryCapacity)
                         ELSE LoneBattery]_vars
    /\ [][(pc = "produce" /\ ~Visiting) => pc' = "charge"]_vars
    /\ [](pc = "idle" /\ ticks > 0 =>
             energy_manager.output = BaseEnergyOut - tally.charged)
    /\ [][pc = "idle" /\ pc' = "collect" => energy_manager'.output = 0]_vars
    /\ <>[](LoneBattery = BatteryCapacity)

\* a tick has found the battery full: nothing was stored and the 50 units
\* collected wait in the ledger for the reset
C33_Witness ==
    /\ pc = "idle"
    /\ ticks > 0
    /\ LoneBattery = BatteryCapacity
    /\ tally.collected = BaseEnergyOut
    /\ tally.charged = 0
    /\ energy_manager.output = BaseEnergyOut

\* C34: resource_add and commodity_add of an amount of 2^63 or more, for
\* which the signed left-over wraps, return and accept min(amount, free
\* capacity) as they do for smaller amounts, and the stored value of the
\* slot does not exceed the capacity.
C34_LargeAmountsClamped ==
    (probe.op \in {"resource_add", "commodity_add"} /\ probe.amount >= Half) =>
        LET before == IF probe.op = "resource_add"
                      THEN probe.before.resources[probe.kind]
                      ELSE probe.before.commodities[probe.kind]
            after == IF probe.op = "resource_add"
                     THEN objects[1].resources[probe.kind]
                     ELSE objects[1].commodities[probe.kind]
        IN  /\ probe.outcome = "returned"
            /\ probe.ret = Min(probe.amount, StorageCapacity - before)
            /\ after = before + probe.ret
            /\ after <= StorageCapacity

(***************************************************************************)
(* The map: objects with a resource marker, structures placed on them and  *)
(* removed again.                                                          *)
(***************************************************************************)
\* MapController::add_object with an object that carries a resource marker
\* and no structure
add_object(p, resource) ==
    /\ pc = "idle"
    /\ placements < MaxPlacements
    /\ objects' = [objects EXCEPT ![p] = NoStructure]
    /\ deposits' = set_object(deposits, p, resource)
    /\ order' = SelectSeq(order, LAMBDA q : q # p)
    /\ placements' = placements + 1
    /\ UNCHANGED <<position, events, energy_manager, resource_manager, pc, idx,
                   ticks, tally, probe>>

\* MapController::new
MapInit ==
    /\ objects = [p \in Positions |-> NoStructure]
    /\ order = <<>>
    /\ energy_manager = EnergyManagerNew
    /\ resource_manager = ResourceManagerNew
    /\ pc = "idle"
    /\ idx = 1
    /\ ticks = 0
    /\ placements = 0
    /\ tally = TallyNew(energy_manager, resource_manager)
    /\ probe = NoProbe
    /\ events = EventBusNew
    /\ deposits = NoDeposits
    /\ position = PositionNew

MapNext ==
    \/ \E p \in Positions, r \in Resources : add_object(p, r)
    \/ \E p \in Positions, s \in NewStructures : add_structure(p, s)
    \/ \E p \in Positions : destroy_structure(p)

SpecMap == MapInit /\ [][MapNext]_vars

\* C35: a structure placed on a coordinate and destroyed again leaves the
\* resource marker of the coordinate as it was before the placement, and
\* the map holds every occupied coordinate once, with one structure.
C35_DepositSurvivesStructure ==
    /\ [][\A p \in Positions :
            (objects'[p] # objects[p] /\ objects'[p].kind # "None") =>
                remove_object(deposits', p)[p] = deposits[p]]_vars
    /\ [](/\ Len(order) = Cardinality(Occupied)
          /\ \A q \in Occupied : \E i \in 1..Len(order) : order[i] = q)

(***************************************************************************)
(* The channel of the timer threads.                                       *)
(***************************************************************************)
\* the sequence numbers of the events of a kind waiting in the channel, in
\* the order of the channel
RECURSIVE Waiting(_, _)
Waiting(rx, kind) ==
    IF rx = <<>> THEN <<>>
    ELSE IF Head(rx).kind = kind
         THEN <<Head(rx).n>> \o Waiting(Tail(rx), kind)
         ELSE Waiting(Tail(rx), kind)

\* C36: next() delivers one event at a time, the event at the head of the
\* channel; the events of a sender are delivered once each and in the order
\* they were sent (the n-th delivery of a kind is the n-th event sent, and
\* the events waiting are those sent and not yet delivered, in order); and
\* with the loop running every Update sent is delivered in the end, whatever
\* the Draw and Input senders put into the channel.
C36_EventsDeliveredInOrder ==
    /\ [][\A kind \in EventKinds :
            events'.received[kind] # events.received[kind] =>
                /\ events.rx # <<>>
                /\ Head(events.rx) = [kind |-> kind, n |-> events.received[kind] + 1]
                /\ events'.rx = Tail(events.rx)
                /\ events'.received =
                      [events.received EXCEPT ![kind] = @ + 1]]_vars
    /\ [](\A kind \in EventKinds :
            Waiting(events.rx, kind) =
                [i \in 1..(events.sent[kind] - events.received[kind]) |->
                    events.received[kind] + i])
    /\ \A n \in 1..MaxSends :
          (events.sent["Update"] >= n) ~> (events.received["Update"] >= n)

\* two Updates were delivered and a tick has run, Draw and Input events
\* were delivered too, and a Draw is still waiting in the channel
C36_Witness ==
    /\ events.received["Update"] = 2
    /\ events.received["Draw"] >= 1
    /\ events.received["Input"] >= 1
    /\ events.sent["Draw"] > events.received["Draw"]
    /\ ticks >= 1

(***************************************************************************)
(* The cursor of the map.                                                  *)
(***************************************************************************)
\* Size::of(90, 40) of the map main builds
MapWidth == 90
MapHeight == 40

\* v as u16 and v as i16
as_u16(v) == v % 65536
as_i16(v) == IF v % 65536 >= 32768 THEN (v % 65536) - 65536 ELSE v % 65536

\* up without the test for the border
up_unguarded(pos) ==
    LET y == as_u16(pos.y) IN [pos EXCEPT !.y = as_i16(y - 1)]

up(pos) ==
    LET y == as_u16(pos.y) IN
    IF y > 0 THEN [pos EXCEPT !.y = as_i16(y - 1)] ELSE pos

down(pos) ==
    LET y == as_u16(pos.y) IN
    IF y < as_u16(MapHeight - 1) THEN [pos EXCEPT !.y = as_i16(y + 1)] ELSE pos

right(pos) ==
    LET x == as_u16(pos.x) IN
    IF x < as_u16(MapWidth - 1) THEN [pos EXCEPT !.x = as_i16(x + 1)] ELSE pos

left(pos) ==
    LET x == as_u16(pos.x) IN
    IF x > 0 THEN [pos EXCEPT !.x = as_i16(x - 1)] ELSE pos

Moves == {"up", "down", "right", "left"}

\* GameEvent::Input with an arrow key: the cursor moves
KeyMove(key) ==
    /\ position' = CASE key = "up" -> up(position)
                     [] key = "down" -> down(position)
                     [] key = "right" -> right(position)
                     [] key = "left" -> left(position)
    /\ probe' = [op |-> key, before |-> position]
    /\ UNCHANGED <<objects, order, energy_manager, resource_manager, pc, idx,
                   ticks, placements, tally, events, deposits>>

\* MapController::new: the cursor at (0, 0) on an empty map
CursorInit ==
    /\ objects = [p \in Positions |-> NoStructure]
    /\ order = <<>>
    /\ energy_manager = EnergyManagerNew
    /\ resource_manager = ResourceManagerNew
    /\ pc = "idle"
    /\ idx = 1
    /\ ticks = 0
    /\ placements = 0
    /\ tally = TallyNew(energy_manager, resource_manager)
    /\ probe = NoProbe
    /\ events = EventBusNew
    /\ deposits = NoDeposits
    /\ position = PositionNew

CursorNext == \E key \in Moves : KeyMove(key)

SpecCursor == CursorInit /\ [][CursorNext]_vars

\* the last move was made against the border it points to
AgainstBorder ==
    \/ probe.op = "up" /\ probe.before.y = 0
    \/ probe.op = "down" /\ probe.before.y = MapHeight - 1
    \/ probe.op = "right" /\ probe.before.x = MapWidth - 1
    \/ probe.op = "left" /\ probe.before.x = 0

\* C37: after any moves from (0, 0) the cursor is on the map, 0 <= x <=
\* width - 1 and 0 <= y <= height - 1; a move against a border leaves the
\* cursor where it was, and any other move takes it one tile further.
C37_CursorOnMap ==
    /\ position.x \in 0..(MapWidth - 1)
    /\ position.y \in 0..(MapHeight - 1)
    /\ probe.op \in Moves =>
          IF AgainstBorder THEN position = probe.before
          ELSE position # probe.before

\* the cursor has reached the far corner of the map and the last move, down
\* against the lower border, left it there
C37_Witness ==
    /\ probe.op = "down"
    /\ probe.before = [x |-> MapWidth - 1, y |-> MapHeight - 1]
    /\ position = probe.before

====
